---- MODULE Spec2Model ----
(***************************************************************************)
(* A model of the THSR-Sniper booking scheduler (src/thsr_py/scheduler.py) *)
(* and of the two processes that share its storage file: the API server    *)
(* (src/thsr_py/api.py), which serves add/cancel/remove/get/list calls and  *)
(* starts a scheduling loop at startup, and the watchdog daemon            *)
(* (src/thsr_py/watchdog.py), which starts a scheduling loop and runs a    *)
(* monitoring pass.                                                        *)
(*                                                                         *)
(* Python's None is the empty sequence and a present optional value v is   *)
(* the one-element sequence <<v>>.  Times are minutes; a timestamp in      *)
(* memory is a record [t, tzinfo], on file the ISO string is the record    *)
(* [iso, suffix].  now counts the minutes since midnight of day 0 and      *)
(* today is the calendar day of now.                                       *)
(***************************************************************************)
EXTENDS Integers, Sequences, FiniteSets, TLC

(* ------------------------------ bounds -------------------------------- *)
MaxTasks == 2
MaxCalls == 3
MaxCycles == 2
MaxMtime == 4
MaxInvocations == 2
MaxWorkers == 2       \* worker threads of one process alive at a time

(* ------------------------- program constants -------------------------- *)
GraceMinutes == 60
SalesLeadDays == 28
FlexibleDays == 4

ApiProc == "api"
DaemonProc == "daemon"
Procs == {ApiProc, DaemonProc}
TaskIds == 1..MaxTasks

None == <<>>
Some(v) == <<v>>

Users == {"alice", "bob"}
AddOwners == {Some("alice")}
AddMaxAttempts == {None, Some(1)}
AddIntervals == {30}
AddDates == {0}

\* a travel date whose sale window is still closed on day 0
FarDate == SalesLeadDays + FlexibleDays + 1
ClockDates == {0, FarDate}
\* the calendar days the clock visits: the first day, the day the sale window of
\* FarDate opens (and date 0 has passed), and the day after FarDate
Days == {0, 1, FarDate + 1}
DayMinutes == 24 * 60
\* the minutes of the first day the clock visits
Clock == {0, 30, 90}
\* the instants the clock visits: the minutes of Clock on the first day, then
\* midnight of each later day of Days
Instants ==
  {[day |-> 0, minute |-> c] : c \in Clock} \cup
  {[day |-> d, minute |-> d * DayMinutes] : d \in Days \ {0}}

BookingStatus ==
  {"PENDING", "RUNNING", "SUCCESS", "FAILED", "EXPIRED", "CANCELLED", "DELETED", "WAITING"}

StatusValue(s) ==
  CASE s = "PENDING" -> "pending"
    [] s = "RUNNING" -> "running"
    [] s = "SUCCESS" -> "success"
    [] s = "FAILED" -> "failed"
    [] s = "EXPIRED" -> "expired"
    [] s = "CANCELLED" -> "cancelled"
    [] s = "DELETED" -> "deleted"
    [] s = "WAITING" -> "waiting"

StatusOfValue(v) == CHOOSE s \in BookingStatus : StatusValue(s) = v

\* a scan cycle that passes over RUNNING tasks as well
CompletedOrRunning == {"SUCCESS", "CANCELLED", "DELETED", "RUNNING"}

Completed == {"SUCCESS", "CANCELLED", "DELETED"}

NoTask == [absent |-> TRUE]

\* nothing has been returned yet
NoReturn == [fn |-> "none"]

VARIABLES
  fileExists,   \* the storage file exists
  disk,         \* the storage file: task id -> task record (dict form) or NoTask
  mtime,        \* the storage file's st_mtime
  tmp,          \* the .tmp staging file (None when absent)
  lock,         \* the .lock file: None, or <<process, thread>> that created it
  now,          \* datetime.now(timezone.utc), in minutes
  today,        \* the calendar date
  mem,          \* self.tasks of each process
  lastMtime,    \* self._last_file_mtime of each process
  lastCleanup,  \* self._last_cleanup_time of each process
  loop,         \* the scheduler thread of each process
  snapObjs,     \* task objects the scan still holds after a reload replaced self.tasks
  api,          \* the request/monitoring thread of each process
  nextId,       \* ids handed out so far (uuid4 never repeats)
  invoked,      \* history: calls of run_booking_flow per task
  succeeded,    \* history: the driver recorded SUCCESS for the task
  cancelAck,    \* history: cancel_task returned True for the task
  refused,      \* history: cancel_task or remove_task turned a caller away as not the owner
  lastInvoke,   \* history: when each process's loop last called run_booking_flow for the task
  removedAt,    \* history: when remove_task last marked the task DELETED
  running,      \* self.running of each process's scheduler
  watching,     \* self.running of the daemon's SchedulerWatchdog
  restarted,    \* history: a monitoring pass found the scheduler stopped and started it
  skipped,      \* history: per process, the tasks whose last change a skipped save left unwritten
  backup,       \* the .corrupted companion of the storage file (None when absent)
  damage,       \* how the content of the storage file fails to load ("none": it loads)
  ret,          \* what the last call of a BookingTask method or of list_tasks returned
  ackAtScan,    \* history: cancelAck as it was when the running scan cycle began
  calls,        \* calls made of the store's API and watchdog passes
  cycles,       \* scan cycles started
  older         \* per process, the worker thread that is not the one followed in loop

vars == <<fileExists, disk, mtime, tmp, lock, now, today, mem, lastMtime, lastCleanup,
          loop, snapObjs, api, nextId, invoked, succeeded, cancelAck, refused, ackAtScan,
          lastInvoke, removedAt, running, watching, restarted, skipped, backup, damage, ret,
          calls, cycles, older>>

fileVars == <<fileExists, disk, mtime, tmp, lock>>
clockVars == <<now, today>>
histVars == <<invoked, succeeded, cancelAck, refused, ackAtScan, lastInvoke, removedAt>>
budgetVars == <<calls, cycles>>

NoTasks == [i \in TaskIds |-> NoTask]
Ids(m) == {i \in TaskIds : m[i] # NoTask}

(* ------------------------------ BookingTask --------------------------- *)
NewTask(id, owner, maxAtt, interval, date) ==
  [id |-> id, user_id |-> owner, date |-> date, interval_minutes |-> interval,
   max_attempts |-> maxAtt, status |-> "PENDING", last_attempt |-> None,
   attempts |-> 0, success_pnr |-> None, error_message |-> None]

\* a date string that strptime("%Y/%m/%d") rejects; the dates it accepts are the
\* day numbers from 0 on
MalformedDate == -1

\* datetime.now(timezone.utc).date() is today; the date of get_taiwan_now()
TaiwanOffset == 8 * 60
taiwan_today == (now + TaiwanOffset) \div DayMinutes

is_expired(task) == IF task.date = MalformedDate THEN FALSE ELSE today > task.date

should_stop(task) ==
  IF is_expired(task) THEN TRUE
  ELSE IF task.max_attempts # None /\ task.max_attempts[1] # 0
       THEN task.attempts >= task.max_attempts[1]
       ELSE FALSE

is_ticket_sales_open(date) ==
  IF date = MalformedDate THEN FALSE
  ELSE taiwan_today >= (date - SalesLeadDays) - FlexibleDays

\* the tzinfo of a datetime: UTC, none (a naive datetime), or another offset;
\* the offsets whose text holds a plus sign
TzInfos == {"utc", "naive", "+08:00", "-05:00"}
PlusOffsets == {"+08:00"}

\* isoformat().replace('+00:00', 'Z'): the offset is written Z for UTC, is
\* missing for a naive datetime and is written as it is otherwise
IsoFormat(dt) ==
  [iso |-> dt.t, suffix |-> IF dt.tzinfo = "utc" THEN "Z"
                            ELSE IF dt.tzinfo = "naive" THEN "" ELSE dt.tzinfo]

\* from_dict on a time stamp: Z becomes +00:00, a text without plus sign and
\* without Z gets +00:00 appended, then datetime.fromisoformat
FromIso(s) == [t |-> s.iso, tzinfo |-> IF s.suffix \in PlusOffsets THEN s.suffix ELSE "utc"]

\* datetime.fromisoformat rejects the text (an offset with +00:00 appended)
FromIsoRaises(s) == s.suffix \notin {"Z", ""} \cup PlusOffsets

to_dict(task) ==
  [id |-> task.id, user_id |-> task.user_id, date |-> task.date,
   interval_minutes |-> task.interval_minutes, max_attempts |-> task.max_attempts,
   status |-> StatusValue(task.status),
   last_attempt |-> IF task.last_attempt # None
                    THEN Some(IsoFormat(task.last_attempt[1])) ELSE None,
   attempts |-> task.attempts, success_pnr |-> task.success_pnr,
   error_message |-> task.error_message]

from_dict(data) ==
  [id |-> data.id, user_id |-> data.user_id, date |-> data.date,
   interval_minutes |-> data.interval_minutes, max_attempts |-> data.max_attempts,
   status |-> StatusOfValue(data.status),
   last_attempt |-> IF data.last_attempt # None
                    THEN Some(FromIso(data.last_attempt[1])) ELSE None,
   attempts |-> data.attempts, success_pnr |-> data.success_pnr,
   error_message |-> data.error_message]

Serialize(m) == [i \in TaskIds |-> IF m[i] = NoTask THEN NoTask ELSE to_dict(m[i])]
Deserialize(f) == [i \in TaskIds |-> IF f[i] = NoTask THEN NoTask ELSE from_dict(f[i])]

(* ------------------------------ the store ----------------------------- *)
MemEmpty(p) == Ids(mem[p]) = {}

\* _should_reload_tasks: the answer, and _last_file_mtime after the call
_should_reload_tasks(p) ==
  fileExists /\ (lastMtime[p] = None \/ mtime > lastMtime[p][1])

MtimeAfterReloadCheck(p) ==
  IF _should_reload_tasks(p) THEN Some(mtime) ELSE lastMtime[p]

\* _load_tasks(force): does the call go on to read the file
LoadReads(p, force) ==
  fileExists /\ (force \/ MemEmpty(p) \/ _should_reload_tasks(p))

\* _load_tasks(force): _last_file_mtime after the guard of the call
MtimeAfterLoadGuard(p, force) ==
  IF ~force /\ ~MemEmpty(p) THEN MtimeAfterReloadCheck(p) ELSE lastMtime[p]

IdleLoop == [pc |-> "sleep", todo |-> {}, cur |-> 0, orphaned |-> FALSE, current_time |-> 0]

\* no second worker thread: a thread that has ended, holding no task object; latest
\* tells whether the thread is the one self.scheduler_thread names
NoWorker == [worker |-> [IdleLoop EXCEPT !.pc = "exited"], objs |-> NoTasks, latest |-> FALSE]
IdleApi == [pc |-> "idle", op |-> "none", id |-> 0, uid |-> None, locked |-> FALSE]

\* the task object the scan of p holds for id
Obj(p, id) == IF loop[p].orphaned THEN snapObjs[p][id] ELSE mem[p][id]

\* _save_tasks up to the creation of the lock file: with the lock free the caller
\* creates it and stages the serialized map, otherwise the save is skipped
\* a save that goes on whether or not the lock file exists
NeverSkips(lk) == FALSE

SaveSkips(lk) == lk # None

\* the ways the content of the storage file can fail to load: no bytes, white
\* space only, text that json.loads rejects, bytes that read() cannot decode, and
\* JSON in which a task record is rejected by from_dict (disk then holds the
\* records that precede it)
DamageKinds == {"empty", "blank", "not_json", "not_text", "bad_record"}

\* json.dump straight into the storage file, seen before it is complete
WrittenInPlace(d) == "not_json"

\* temp_path.replace(storage_path): the storage file is the whole staged file
Replaced(d) == "none"

\* the replace of the data file by the staged file, and the release of the lock
WriteFile(p) ==
  /\ disk' = tmp[1]
  /\ damage' = Replaced(damage)
  /\ fileExists' = TRUE
  /\ mtime' = mtime + 1
  /\ lastMtime' = [lastMtime EXCEPT ![p] = Some(mtime + 1)]
  /\ tmp' = None
  /\ lock' = None
  /\ skipped' = [skipped EXCEPT ![p] = {i \in @ : tmp[1][i] # Serialize(mem[p])[i]}]

(* ------------------------------- Init --------------------------------- *)
Init ==
  /\ fileExists = FALSE
  /\ disk = NoTasks
  /\ mtime = 0
  /\ tmp = None
  /\ lock = None
  /\ now = 0
  /\ today = 0
  /\ mem = [p \in Procs |-> NoTasks]
  /\ lastMtime = [p \in Procs |-> None]
  /\ lastCleanup = [p \in Procs |-> None]
  /\ loop = [p \in Procs |-> IdleLoop]
  /\ snapObjs = [p \in Procs |-> NoTasks]
  /\ api = [p \in Procs |-> IdleApi]
  /\ nextId = 1
  /\ invoked = [i \in TaskIds |-> 0]
  /\ succeeded = [i \in TaskIds |-> FALSE]
  /\ cancelAck = [i \in TaskIds |-> FALSE]
  /\ refused = [i \in TaskIds |-> FALSE]
  /\ lastInvoke = [p \in Procs |-> [i \in TaskIds |-> None]]
  /\ removedAt = [i \in TaskIds |-> None]
  /\ running = [p \in Procs |-> TRUE]
  /\ watching = TRUE
  /\ older = [p \in Procs |-> NoWorker]
  /\ restarted = FALSE
  /\ skipped = [p \in Procs |-> {}]
  /\ backup = None
  /\ damage = "none"
  /\ ret = NoReturn
  /\ ackAtScan = [p \in Procs |-> {}]
  /\ calls = 0
  /\ cycles = 0

(* ------------------------------ the clock ----------------------------- *)
\* the instant of Instants that follows datetime.now
NextInstant ==
  CHOOSE t \in Instants : t.minute > now /\ \A u \in Instants : u.minute > now => t.minute <= u.minute

\* datetime.now advances to the next instant, within the day
Tick ==
  /\ \E t \in Instants : t.minute > now
  /\ NextInstant.day = today
  /\ now' = NextInstant.minute
  /\ UNCHANGED <<calls, cycles, fileVars, today, mem, lastMtime, lastCleanup, loop, snapObjs, api,
                 nextId, histVars, running, watching, older, restarted, skipped, backup, damage, ret>>

\* datetime.now advances to the next instant, past midnight: the calendar date
\* advances; the budget of scan cycles is per day
DayTick ==
  /\ \E t \in Instants : t.minute > now
  /\ NextInstant.day > today
  /\ today' = NextInstant.day
  /\ now' = NextInstant.minute
  /\ cycles' = 0
  /\ UNCHANGED <<calls, fileVars, mem, lastMtime, lastCleanup, loop, snapObjs, api,
                 nextId, histVars, running, watching, older, restarted, skipped, backup, damage, ret>>

(* ------------------------------ _save_tasks --------------------------- *)
\* _save_tasks as far as the creation of the lock file, for the map m while the
\* lock file is lk: the save is skipped when the lock file exists, otherwise the
\* caller creates the lock file and stages the serialized map
SaveBegin(p, thread, m, lk) ==
  IF SaveSkips(lk)
  THEN lock' = lk /\ tmp' = tmp
  ELSE lock' = <<p, thread>> /\ tmp' = Some(Serialize(m))

\* the save of p that would have written the changes of the tasks ids is skipped
\* when the lock file is lk
Skip(p, ids, lk) ==
  skipped' = IF SaveSkips(lk) THEN [skipped EXCEPT ![p] = @ \cup ids] ELSE skipped

\* writes are counted by mtime: no save starts once MaxMtime writes were made
SaveBound(lk) == lk = None => mtime < MaxMtime

(* ------------------------------ add_task ------------------------------ *)
\* add_task: insert under a fresh id, then _save_tasks
AddTask(p, owner, maxAtt, interval, date) ==
  /\ p = ApiProc
  /\ api[p].pc = "idle"
  /\ nextId <= MaxTasks
  /\ calls < MaxCalls
  /\ calls' = calls + 1
  /\ SaveBound(lock)
  /\ date >= today
  /\ LET id == nextId
         m == [mem[p] EXCEPT ![id] = NewTask(id, owner, maxAtt, interval, date)]
     IN /\ mem' = [mem EXCEPT ![p] = m]
        /\ nextId' = nextId + 1
        /\ SaveBegin(p, "api", m, lock)
        /\ Skip(p, {id}, lock)
        /\ api' = [api EXCEPT ![p] =
                     IF SaveSkips(lock) THEN IdleApi
                     ELSE [IdleApi EXCEPT !.pc = "write", !.op = "add", !.id = id]]
  /\ UNCHANGED <<cycles, fileExists, disk, mtime, clockVars, lastMtime, lastCleanup, loop,
                 snapObjs, histVars, running, watching, older, restarted, backup, damage, ret>>

(* ------------- cancel_task, remove_task, get_task, list_tasks --------- *)
\* does the call start with _load_tasks()
CallsLoad(p, op, id, force) ==
  \/ op \in {"cancel", "remove"}
  \/ op = "get" /\ mem[p][id] = NoTask
  \/ op \in {"list", "watchdog"} /\ (MemEmpty(p) \/ force)

\* cancel_task and remove_task without their ownership check
OwnerNeverDenied(task, uid) == FALSE

OwnerDenied(task, uid) == uid # None /\ task.user_id # uid

\* _cleanup_expired_tasks of the watchdog: the tasks list_tasks returns that are
\* PENDING or RUNNING and past their date become EXPIRED
ExpiredByWatchdog(m) ==
  {i \in Ids(m) : m[i].status \in {"PENDING", "RUNNING"} /\ is_expired(m[i])}

MarkExpired(m) ==
  [i \in TaskIds |-> IF i \in ExpiredByWatchdog(m) THEN [m[i] EXCEPT !.status = "EXPIRED"]
                     ELSE m[i]]

\* cancel_task and remove_task resetting the attempts counter as well
MapAfterCallResetting(op, id, uid, m) ==
  IF op \in {"cancel", "remove"} /\ m[id] # NoTask /\ ~OwnerDenied(m[id], uid)
  THEN [m EXCEPT ![id].status = IF op = "cancel" THEN "CANCELLED" ELSE "DELETED",
                 ![id].attempts = 0]
  ELSE IF op = "watchdog" THEN MarkExpired(m)
  ELSE m

\* what the call changes in self.tasks once _load_tasks has returned with map m
MapAfterCall(op, id, uid, m) ==
  IF op \in {"cancel", "remove"} /\ m[id] # NoTask /\ ~OwnerDenied(m[id], uid)
  THEN [m EXCEPT ![id].status = IF op = "cancel" THEN "CANCELLED" ELSE "DELETED"]
  ELSE IF op = "watchdog" THEN MarkExpired(m)
  ELSE m

\* does the call end with _save_tasks
CallSaves(op, id, uid, m) ==
  \/ op \in {"cancel", "remove"} /\ m[id] # NoTask /\ ~OwnerDenied(m[id], uid)
  \/ op = "watchdog" /\ ExpiredByWatchdog(m) # {}

\* the rest of a call after _load_tasks returned with map m and lock file lk
AfterLoad(p, op, id, uid, m, lk) ==
  LET m2 == MapAfterCall(op, id, uid, m)
      saves == CallSaves(op, id, uid, m)
  IN /\ saves => SaveBound(lk)
     /\ mem' = [mem EXCEPT ![p] = m2]
     /\ IF saves THEN SaveBegin(p, "api", m2, lk) ELSE lock' = lk /\ tmp' = tmp
     /\ IF saves
        THEN Skip(p, IF op = "watchdog" THEN ExpiredByWatchdog(m) ELSE {id}, lk)
        ELSE skipped' = skipped
     /\ api' = [api EXCEPT ![p] =
                  IF saves /\ ~SaveSkips(lk)
                  THEN [IdleApi EXCEPT !.pc = "write", !.op = op, !.id = id]
                  ELSE IdleApi]
     /\ cancelAck' = IF op = "cancel" /\ saves /\ SaveSkips(lk)
                     THEN [cancelAck EXCEPT ![id] = TRUE] ELSE cancelAck
     /\ refused' = IF op \in {"cancel", "remove"} /\ m[id] # NoTask /\ OwnerDenied(m[id], uid)
                   THEN [refused EXCEPT ![id] = TRUE] ELSE refused
     /\ removedAt' = IF op = "remove" /\ saves
                     THEN [removedAt EXCEPT ![id] = Some(now)] ELSE removedAt

\* a monitoring pass that never starts the scheduler
NeverRestarts(p, op) == FALSE

\* the worker threads of p that have not ended
Alive(p) ==
  (IF loop[p].pc # "exited" THEN 1 ELSE 0) + (IF older[p].worker.pc # "exited" THEN 1 ELSE 0)

\* the health check of a monitoring pass finds the scheduler stopped
Restarts(p, op) == op = "watchdog" /\ ~running[p]

\* a call of the request thread up to the lock of its _load_tasks, or, when
\* _load_tasks returns at its guard, up to the lock of its _save_tasks; a
\* monitoring pass of the watchdog begins with its health check, which calls
\* start_scheduler when the scheduler is stopped: a new worker thread is created,
\* which is the one loop follows from here on; a worker thread that has not left
\* its loop (stop_scheduler gave up joining it) goes on as older
CallBody(p, op, id, uid, force) ==
  /\ api[p].pc = "idle"
  /\ op = "watchdog" => watching
  /\ running' = IF Restarts(p, op) THEN [running EXCEPT ![p] = TRUE] ELSE running
  /\ restarted' = (restarted \/ Restarts(p, op))
  /\ Restarts(p, op) => Alive(p) < MaxWorkers
  /\ loop' = IF Restarts(p, op) THEN [loop EXCEPT ![p] = IdleLoop] ELSE loop
  /\ older' = IF Restarts(p, op)
              THEN [older EXCEPT ![p] = IF loop[p].pc = "exited"
                                        THEN [@ EXCEPT !.latest = FALSE]
                                        ELSE [worker |-> loop[p], objs |-> snapObjs[p],
                                              latest |-> FALSE]]
              ELSE older
  /\ snapObjs' = IF Restarts(p, op) THEN [snapObjs EXCEPT ![p] = NoTasks] ELSE snapObjs
  /\ IF p = ApiProc THEN op \in {"cancel", "remove", "get", "list"} ELSE op = "watchdog"
  /\ op \in {"list", "watchdog"} => id = 0 /\ uid = None
  /\ op = "get" => uid = None
  /\ op \in {"cancel", "remove", "get"} => id \in TaskIds /\ ~force
  /\ op = "watchdog" => ~force
  /\ IF CallsLoad(p, op, id, force) /\ LoadReads(p, FALSE)
     THEN /\ lastMtime' = [lastMtime EXCEPT ![p] = MtimeAfterLoadGuard(p, FALSE)]
          /\ lock' = IF lock = None THEN <<p, "api">> ELSE lock
          /\ api' = [api EXCEPT ![p] = [pc |-> "load", op |-> op, id |-> id, uid |-> uid,
                                        locked |-> (lock = None)]]
          /\ UNCHANGED <<mem, tmp, cancelAck, refused, removedAt, skipped>>
     ELSE /\ lastMtime' = [lastMtime EXCEPT ![p] =
                             IF CallsLoad(p, op, id, force)
                             THEN MtimeAfterLoadGuard(p, FALSE) ELSE lastMtime[p]]
          /\ AfterLoad(p, op, id, uid, mem[p], lock)
  /\ UNCHANGED <<cycles, fileExists, disk, mtime, clockVars, lastCleanup, nextId,
                 invoked, succeeded, ackAtScan, lastInvoke, watching, backup, damage, ret>>

\* a call within the budget of calls
CallBegin(p, op, id, uid, force) ==
  /\ calls < MaxCalls
  /\ calls' = calls + 1
  /\ CallBody(p, op, id, uid, force)

\* self.tasks when _load_tasks returns after it went on to the file: the file's
\* tasks; the map as it was for a file of no bytes (273, before the clear); no
\* task for a blank file, for text json.loads rejects and for bytes read()
\* rejects (after the clear); the records read before the one from_dict rejects
LoadedMap(p) ==
  CASE damage \in {"none", "bad_record"} -> Deserialize(disk)
    [] damage = "empty" -> mem[p]
    [] OTHER -> NoTasks

\* the except clause for json.JSONDecodeError moves the file to its .corrupted
\* companion
RenamedAside == damage = "not_json"

\* a load that removes the lock file whoever created it
LockRemoved(p) == None

\* a load that leaves the lock file it created
LockKept(p) == lock

\* the lock file when _load_tasks returns: the finally clause removes it when this
\* call created it, and leaves it alone when the five attempts to create it failed
LockAfterLoad(p) == IF api[p].locked THEN None ELSE lock

\* _load_tasks from the read of the file on (clear, read, release of the lock the
\* call created), followed by the rest of the call; task objects a running scan
\* cycle holds are no longer the ones in self.tasks
LoadRead(p) ==
  /\ api[p].pc = "load"
  /\ LET detach == loop[p].pc # "sleep" /\ ~loop[p].orphaned /\ damage # "empty"
         detachOlder == /\ older[p].worker.pc \notin {"sleep", "exited"}
                        /\ ~older[p].worker.orphaned
                        /\ damage # "empty"
     IN /\ loop' = [loop EXCEPT ![p].orphaned = @ \/ detach]
        /\ snapObjs' = [snapObjs EXCEPT ![p] = IF detach THEN mem[p] ELSE @]
        /\ older' = [older EXCEPT ![p].worker.orphaned = @ \/ detachOlder,
                                  ![p].objs = IF detachOlder THEN mem[p] ELSE @]
  /\ AfterLoad(p, api[p].op, api[p].id, api[p].uid, LoadedMap(p), LockAfterLoad(p))
  /\ fileExists' = (fileExists /\ ~RenamedAside)
  /\ disk' = IF RenamedAside THEN NoTasks ELSE disk
  /\ backup' = IF RenamedAside THEN Some(damage) ELSE backup
  /\ damage' = IF RenamedAside THEN "none" ELSE damage
  /\ UNCHANGED <<calls, cycles, mtime, clockVars, lastMtime, lastCleanup, nextId,
                 invoked, succeeded, ackAtScan, lastInvoke, running, watching, restarted, ret>>

\* the second half of _save_tasks for a call of the request thread
ApiWrite(p) ==
  /\ api[p].pc = "write"
  /\ WriteFile(p)
  /\ api' = [api EXCEPT ![p] = IdleApi]
  /\ cancelAck' = IF api[p].op = "cancel"
                  THEN [cancelAck EXCEPT ![api[p].id] = TRUE] ELSE cancelAck
  /\ UNCHANGED <<calls, cycles, clockVars, mem, lastCleanup, loop, snapObjs, nextId,
                 invoked, succeeded, refused, ackAtScan, lastInvoke, removedAt, running, watching, older, restarted, backup, ret>>

\* the second half of _save_tasks for a call of the request thread when writing
\* the temporary file or moving it raises (no space, no permission): the storage
\* file and _last_file_mtime stay, the finally clause removes the lock file and
\* the outer except clause logs the error, so the call ends as if it had saved
WriteRaises(p) ==
  /\ api[p].pc = "write"
  /\ tmp' = None
  /\ lock' = None
  /\ api' = [api EXCEPT ![p] = IdleApi]
  /\ cancelAck' = IF api[p].op = "cancel"
                  THEN [cancelAck EXCEPT ![api[p].id] = TRUE] ELSE cancelAck
  /\ UNCHANGED <<calls, cycles, fileExists, disk, mtime, clockVars, mem, lastMtime, lastCleanup,
                 loop, snapObjs, nextId, invoked, succeeded, refused, ackAtScan, lastInvoke,
                 removedAt, running, watching, older, restarted, skipped, backup, damage, ret>>

(* -------------------------- the scheduling loop ----------------------- *)
\* _process_tasks: current_time and the snapshot list(self.tasks.values())
StartCycle(p) ==
  /\ loop[p].pc = "sleep"
  /\ running[p]
  /\ loop' = [loop EXCEPT ![p] = [pc |-> "scan", todo |-> Ids(mem[p]), cur |-> 0,
                                  orphaned |-> FALSE, current_time |-> now]]
  /\ ackAtScan' = [ackAtScan EXCEPT ![p] = {i \in TaskIds : cancelAck[i]}]
  /\ UNCHANGED <<calls, fileVars, clockVars, mem, lastMtime, lastCleanup, snapObjs, api, nextId,
                 invoked, succeeded, cancelAck, refused, lastInvoke, removedAt, running, watching, older,
                 restarted, skipped, backup, damage, ret>>

\* a scan cycle within the budget of cycles
ScanStart(p) ==
  /\ cycles < MaxCycles
  /\ cycles' = cycles + 1
  /\ StartCycle(p)

\* the task object the thread holds becomes t
SetObj(p, id, t) ==
  IF loop[p].orphaned
  THEN snapObjs' = [snapObjs EXCEPT ![p][id] = t] /\ mem' = mem
  ELSE mem' = [mem EXCEPT ![p][id] = t] /\ snapObjs' = snapObjs

\* self.tasks of p once the task object the thread holds has become t
MapWith(p, id, t) == IF loop[p].orphaned THEN mem[p] ELSE [mem[p] EXCEPT ![id] = t]

\* the due check of _process_tasks
should_run(task, current_time) ==
  IF task.last_attempt = None THEN TRUE
  ELSE current_time - task.last_attempt[1].t >= task.interval_minutes

\* the checks of an iteration with the attempt limit tested before the expiry
CheckedLimitFirst(task) ==
  IF task.status \in Completed THEN task
  ELSE IF should_stop(task)
       THEN [task EXCEPT !.status = "FAILED",
                         !.error_message = Some("Maximum attempts reached")]
  ELSE IF is_expired(task) THEN [task EXCEPT !.status = "EXPIRED"]
  ELSE task

\* the checks of one iteration of _process_tasks before the due check: the task as
\* they leave it
Checked(task) ==
  IF task.status \in Completed THEN task
  ELSE IF is_expired(task) THEN [task EXCEPT !.status = "EXPIRED"]
  ELSE IF should_stop(task)
       THEN [task EXCEPT !.status = "FAILED",
                         !.error_message = Some("Maximum attempts reached")]
  ELSE IF ~is_ticket_sales_open(task.date) THEN [task EXCEPT !.status = "WAITING"]
  ELSE IF task.status = "WAITING" THEN [task EXCEPT !.status = "PENDING"]
  ELSE task

\* an iteration without the sale-window gate
ReachesDueCheckUngated(task) ==
  /\ task.status \notin Completed
  /\ ~is_expired(task)
  /\ ~should_stop(task)

\* does the iteration reach the due check
ReachesDueCheck(task) ==
  /\ task.status \notin Completed
  /\ ~is_expired(task)
  /\ ~should_stop(task)
  /\ is_ticket_sales_open(task.date)

\* does the iteration call _execute_booking_task
Executes(task, current_time) ==
  ReachesDueCheck(task) /\ should_run(Checked(task), current_time)

\* the for loop of _process_tasks takes the tasks in the order of the dict, which
\* is the order they were added in
NextInScan(p) == CHOOSE i \in loop[p].todo : \A j \in loop[p].todo : i <= j

\* one iteration of the for loop of _process_tasks that does not execute the task
ScanSkip(p, id) ==
  /\ loop[p].pc = "scan"
  /\ id \in loop[p].todo
  /\ id = NextInScan(p)
  /\ ~Executes(Obj(p, id), loop[p].current_time)
  /\ SetObj(p, id, Checked(Obj(p, id)))
  /\ loop' = [loop EXCEPT ![p].todo = @ \ {id}]
  /\ UNCHANGED <<calls, cycles, fileVars, clockVars, lastMtime, lastCleanup, api, nextId, histVars, running, watching, older, restarted, skipped, backup, damage, ret>>

\* the task as _execute_booking_task marks it before the attempt
Attempted(task) ==
  [task EXCEPT !.status = "RUNNING",
               !.last_attempt = Some([t |-> now, tzinfo |-> "utc"]),
               !.attempts = @ + 1]

\* one iteration that finds the task due: _execute_booking_task up to the lock of
\* its first _save_tasks, and up to the call of run_booking_flow when that save
\* is skipped
ExecBegin(p, id) ==
  /\ loop[p].pc = "scan"
  /\ id \in loop[p].todo
  /\ id = NextInScan(p)
  /\ invoked[id] < MaxInvocations
  /\ SaveBound(lock)
  /\ Executes(Obj(p, id), loop[p].current_time)
  /\ LET task == Attempted(Checked(Obj(p, id)))
     IN /\ SetObj(p, id, task)
        /\ SaveBegin(p, "loop", MapWith(p, id, task), lock)
        /\ Skip(p, {id}, lock)
  /\ loop' = [loop EXCEPT ![p].todo = @ \ {id}, ![p].cur = id,
                          ![p].pc = IF SaveSkips(lock) THEN "inflight" ELSE "pre_write"]
  /\ invoked' = IF SaveSkips(lock) THEN [invoked EXCEPT ![id] = @ + 1] ELSE invoked
  /\ lastInvoke' = IF SaveSkips(lock) THEN [lastInvoke EXCEPT ![p][id] = Some(now)] ELSE lastInvoke
  /\ UNCHANGED <<calls, cycles, fileExists, disk, mtime, clockVars, lastMtime, lastCleanup, api, nextId,
                 succeeded, cancelAck, refused, ackAtScan, removedAt, running, watching, older, restarted, backup, damage, ret>>

\* the second half of the save before the attempt, then the call of run_booking_flow
PreWrite(p) ==
  /\ loop[p].pc = "pre_write"
  /\ WriteFile(p)
  /\ loop' = [loop EXCEPT ![p].pc = "inflight"]
  /\ invoked' = [invoked EXCEPT ![loop[p].cur] = @ + 1]
  /\ lastInvoke' = [lastInvoke EXCEPT ![p][loop[p].cur] = Some(now)]
  /\ UNCHANGED <<calls, cycles, clockVars, mem, lastCleanup, snapObjs, api, nextId,
                 succeeded, cancelAck, refused, ackAtScan, removedAt, running, watching, older, restarted, backup, ret>>

\* the ways run_booking_flow ends: it returns with a "PNR Code:" line on stdout,
\* it returns without one, it raises before printing one, or it raises in
\* _show_result after printing one (a select_one(...) that finds nothing)
CollaboratorOutcomes == {"pnr", "fail", "exc", "pnr_exc"}

\* the task as _execute_booking_task leaves it for an outcome of run_booking_flow
Outcome(task, out) ==
  CASE out = "pnr" -> [task EXCEPT !.success_pnr = Some("PNR"), !.status = "SUCCESS"]
    [] out = "fail" ->
         [task EXCEPT !.error_message = Some("Booking failed - no PNR code found"),
                      !.status = IF @ # "SUCCESS" THEN "PENDING" ELSE @]
    [] out \in {"exc", "pnr_exc"} ->
         IF task.status # "SUCCESS"
         THEN [task EXCEPT !.error_message = Some("Booking execution error"),
                           !.status = "PENDING"]
         ELSE task

\* run_booking_flow returns or raises: the outcome is recorded, then the final
\* _save_tasks up to its lock
ExecEnd(p, out) ==
  /\ loop[p].pc = "inflight"
  /\ SaveBound(lock)
  /\ LET id == loop[p].cur
         done == Outcome(Obj(p, id), out)
     IN /\ SetObj(p, id, done)
        /\ SaveBegin(p, "loop", MapWith(p, id, done), lock)
        /\ Skip(p, {id}, lock)
        /\ succeeded' = IF out = "pnr" THEN [succeeded EXCEPT ![id] = TRUE] ELSE succeeded
  /\ loop' = [loop EXCEPT ![p].pc = IF SaveSkips(lock) THEN "scan" ELSE "post_write",
                          ![p].cur = IF SaveSkips(lock) THEN 0 ELSE @]
  /\ UNCHANGED <<calls, cycles, fileExists, disk, mtime, clockVars, lastMtime, lastCleanup, api, nextId,
                 invoked, cancelAck, refused, ackAtScan, lastInvoke, removedAt, running, watching, older, restarted, backup, damage, ret>>

\* the second half of the final save
PostWrite(p) ==
  /\ loop[p].pc = "post_write"
  /\ WriteFile(p)
  /\ loop' = [loop EXCEPT ![p].pc = "scan", ![p].cur = 0]
  /\ UNCHANGED <<calls, cycles, clockVars, mem, lastCleanup, snapObjs, api, nextId, histVars, running, watching, older, restarted, backup, ret>>

\* _cleanup_deleted_tasks: the tasks it deletes from self.tasks
Purged(m, current_time) ==
  {i \in Ids(m) : /\ m[i].status = "DELETED"
                  /\ m[i].last_attempt # None
                  /\ m[i].last_attempt[1].t < current_time - GraceMinutes}

CleanupRuns(p, current_time) ==
  lastCleanup[p] # None /\ current_time - lastCleanup[p][1] >= GraceMinutes

\* the end of _process_tasks: _cleanup_deleted_tasks, then the sleep of the loop
ScanEnd(p) ==
  /\ loop[p].pc = "scan"
  /\ loop[p].todo = {}
  /\ LET ct == loop[p].current_time
     IN /\ lastCleanup' = [lastCleanup EXCEPT ![p] =
                             IF @ = None \/ CleanupRuns(p, ct) THEN Some(ct) ELSE @]
        /\ mem' = [mem EXCEPT ![p] =
                     IF CleanupRuns(p, ct)
                     THEN [i \in TaskIds |-> IF i \in Purged(mem[p], ct) THEN NoTask
                                             ELSE mem[p][i]]
                     ELSE @]
  /\ loop' = [loop EXCEPT ![p] = IdleLoop]
  /\ snapObjs' = [snapObjs EXCEPT ![p] = NoTasks]
  /\ UNCHANGED <<calls, cycles, fileVars, clockVars, lastMtime, api, nextId, histVars, running, watching, older, restarted, skipped, backup, damage, ret>>

(* ------------------ _scheduler_loop, start and stop ------------------- *)
\* an exception inside _process_tasks that ends the worker's loop
CycleRaisesFatal(p) ==
  /\ loop[p].pc = "scan"
  /\ loop' = [loop EXCEPT ![p] = [IdleLoop EXCEPT !.pc = "exited"]]
  /\ snapObjs' = [snapObjs EXCEPT ![p] = NoTasks]
  /\ UNCHANGED <<calls, cycles, fileVars, clockVars, mem, lastMtime, lastCleanup, api, nextId,
                 histVars, running, watching, older, restarted, skipped, backup, damage, ret>>

\* an exception inside _process_tasks: the handler of _scheduler_loop logs it
\* and the worker sleeps 60 seconds
CycleRaises(p) ==
  /\ loop[p].pc = "scan"
  /\ loop' = [loop EXCEPT ![p] = [IdleLoop EXCEPT !.pc = "backoff"]]
  /\ snapObjs' = [snapObjs EXCEPT ![p] = NoTasks]
  /\ UNCHANGED <<calls, cycles, fileVars, clockVars, mem, lastMtime, lastCleanup, api, nextId,
                 histVars, running, watching, older, restarted, skipped, backup, damage, ret>>

\* the sleep after a failed cycle ends: back to the test of the while loop
BackoffEnd(p) ==
  /\ loop[p].pc = "backoff"
  /\ loop' = [loop EXCEPT ![p].pc = "sleep"]
  /\ UNCHANGED <<calls, cycles, fileVars, clockVars, mem, lastMtime, lastCleanup, snapObjs, api,
                 nextId, histVars, running, watching, older, restarted, skipped, backup, damage, ret>>

\* the while loop of _scheduler_loop finds self.running false: the thread ends,
\* and loop follows the other worker thread of p when there is one
LoopExit(p) ==
  /\ loop[p].pc = "sleep"
  /\ ~running[p]
  /\ IF older[p].worker.pc = "exited"
     THEN /\ loop' = [loop EXCEPT ![p].pc = "exited"]
          /\ UNCHANGED <<snapObjs, older>>
     ELSE /\ loop' = [loop EXCEPT ![p] = older[p].worker]
          /\ snapObjs' = [snapObjs EXCEPT ![p] = older[p].objs]
          /\ older' = [older EXCEPT ![p] = [NoWorker EXCEPT !.latest = ~older[p].latest]]
  /\ UNCHANGED <<calls, cycles, fileVars, clockVars, mem, lastMtime, lastCleanup, api,
                 nextId, histVars, running, watching, restarted, skipped, backup, damage, ret>>

\* the thread self.scheduler_thread names
Latest(p) == IF older[p].latest THEN older[p].worker ELSE loop[p]

\* where a worker thread stays longer than the 5 seconds stop_scheduler waits for
\* it: the sleep between two cycles, the sleep after a failed cycle, an attempt
Blocking == {"sleep", "backoff", "inflight"}

\* stop_scheduler, called on the process's scheduler while it runs, up to its
\* join(timeout=5)
StopScheduler(p) ==
  /\ running[p]
  /\ api[p].pc = "idle"
  /\ calls < MaxCalls
  /\ calls' = calls + 1
  /\ running' = [running EXCEPT ![p] = FALSE]
  /\ api' = [api EXCEPT ![p] = [IdleApi EXCEPT !.pc = "join"]]
  /\ UNCHANGED <<cycles, fileVars, clockVars, mem, lastMtime, lastCleanup, loop, snapObjs,
                 nextId, histVars, watching, restarted, skipped, backup, damage, ret, older>>

\* the join of stop_scheduler returns, and with it stop_scheduler and, when
\* SchedulerWatchdog.stop made the call, SchedulerWatchdog.stop: the thread has
\* ended, or the 5 seconds have passed while it sleeps or waits for an attempt
JoinEnds(p) ==
  /\ api[p].pc = "join"
  /\ Latest(p).pc \in Blocking \cup {"exited"}
  /\ api' = [api EXCEPT ![p] = [IdleApi EXCEPT !.pc = IF api[p].op = "stop"
                                                      THEN "stopped" ELSE "idle"]]
  /\ UNCHANGED <<calls, cycles, fileVars, clockVars, mem, lastMtime, lastCleanup, loop, snapObjs,
                 nextId, histVars, running, watching, restarted, skipped, backup, damage, ret,
                 older>>

\* SchedulerWatchdog.start up to its monitoring loop: the scheduler is started
WatchdogStart(p) ==
  /\ p = DaemonProc
  /\ api[p].pc = "start"
  /\ ~watching
  /\ watching' = TRUE
  /\ running' = [running EXCEPT ![p] = TRUE]
  /\ loop' = IF running[p] THEN loop ELSE [loop EXCEPT ![p] = IdleLoop]
  /\ api' = [api EXCEPT ![p] = IdleApi]
  /\ UNCHANGED <<calls, cycles, fileVars, clockVars, mem, lastMtime, lastCleanup, snapObjs,
                 nextId, histVars, restarted, skipped, backup, damage, ret, older>>

\* SchedulerWatchdog.stop, from the signal handler, between two monitoring
\* passes: the watchdog is stopped and the monitoring loop ends; the scheduler, when
\* it runs, is stopped by stop_scheduler, which the step follows up to its join
WatchdogStop(p) ==
  /\ p = DaemonProc
  /\ api[p].pc = "idle"
  /\ watching
  /\ watching' = FALSE
  /\ running' = [running EXCEPT ![p] = FALSE]
  /\ api' = [api EXCEPT ![p] = IF running[p]
                                THEN [IdleApi EXCEPT !.pc = "join", !.op = "stop"]
                                ELSE [IdleApi EXCEPT !.pc = "stopped"]]
  /\ UNCHANGED <<calls, cycles, fileVars, clockVars, mem, lastMtime, lastCleanup, loop, snapObjs,
                 nextId, histVars, restarted, skipped, backup, damage, ret, older>>

\* the scheduler decides which of the two worker threads of p takes the next
\* steps: loop and snapObjs follow the other one from here on
Switch(p) ==
  /\ older[p].worker.pc # "exited"
  /\ loop' = [loop EXCEPT ![p] = older[p].worker]
  /\ snapObjs' = [snapObjs EXCEPT ![p] = older[p].objs]
  /\ older' = [older EXCEPT ![p] = [worker |-> loop[p], objs |-> snapObjs[p],
                                    latest |-> ~older[p].latest]]
  /\ UNCHANGED <<calls, cycles, fileVars, clockVars, mem, lastMtime, lastCleanup, api,
                 nextId, histVars, running, watching, restarted, skipped, backup, damage, ret>>

Next ==
  \/ \E o \in AddOwners, m \in AddMaxAttempts, i \in AddIntervals, d \in AddDates :
       AddTask(ApiProc, o, m, i, d)
  \/ \E p \in Procs, op \in {"cancel", "remove", "get", "list", "watchdog"},
        id \in TaskIds \cup {0}, uid \in {None} \cup {Some(u) : u \in Users},
        force \in BOOLEAN :
       CallBegin(p, op, id, uid, force)
  \/ \E p \in Procs : LoadRead(p)
  \/ \E p \in Procs : ApiWrite(p)
  \/ \E p \in Procs : ScanStart(p)
  \/ \E p \in Procs, id \in TaskIds : ScanSkip(p, id)
  \/ \E p \in Procs, id \in TaskIds : ExecBegin(p, id)
  \/ \E p \in Procs : PreWrite(p)
  \/ \E p \in Procs, out \in CollaboratorOutcomes : ExecEnd(p, out)
  \/ \E p \in Procs : PostWrite(p)
  \/ \E p \in Procs : ScanEnd(p)

\* both processes, their request threads and their scheduling loops, over one
\* instant of the clock: every interleaving of calls, loads, saves and scan cycles
Spec == Init /\ [][Next]_vars

(* ------------------------ the API server over time ---------------------- *)
\* the API server has stored one task, for a date of ClockDates, and no more
\* tasks are added
ClockInit ==
  /\ fileExists = TRUE
  /\ \E o \in AddOwners, m \in AddMaxAttempts, i \in AddIntervals, d \in ClockDates :
       LET stored == [NoTasks EXCEPT ![1] = NewTask(1, o, m, i, d)]
       IN /\ mem = [p \in Procs |-> IF p = ApiProc THEN stored ELSE NoTasks]
          /\ disk = Serialize(stored)
  /\ mtime = 1
  /\ tmp = None
  /\ lock = None
  /\ now = 0
  /\ today = 0
  /\ lastMtime = [p \in Procs |-> IF p = ApiProc THEN Some(1) ELSE None]
  /\ lastCleanup = [p \in Procs |-> None]
  /\ loop = [p \in Procs |-> IdleLoop]
  /\ snapObjs = [p \in Procs |-> NoTasks]
  /\ api = [p \in Procs |-> IdleApi]
  /\ nextId = MaxTasks + 1
  /\ invoked = [i \in TaskIds |-> 0]
  /\ succeeded = [i \in TaskIds |-> FALSE]
  /\ cancelAck = [i \in TaskIds |-> FALSE]
  /\ refused = [i \in TaskIds |-> FALSE]
  /\ lastInvoke = [p \in Procs |-> [i \in TaskIds |-> None]]
  /\ removedAt = [i \in TaskIds |-> None]
  /\ running = [p \in Procs |-> TRUE]
  /\ watching = TRUE
  /\ older = [p \in Procs |-> NoWorker]
  /\ restarted = FALSE
  /\ skipped = [p \in Procs |-> {}]
  /\ backup = None
  /\ damage = "none"
  /\ ret = NoReturn
  /\ ackAtScan = [p \in Procs |-> {}]
  /\ calls = 0
  /\ cycles = 0

ClockNext ==
  \/ Tick
  \/ DayTick
  \/ \E op \in {"cancel", "remove"}, uid \in {None} : CallBegin(ApiProc, op, 1, uid, FALSE)
  \/ LoadRead(ApiProc)
  \/ ApiWrite(ApiProc)
  \/ ScanStart(ApiProc)
  \/ \E id \in TaskIds : ScanSkip(ApiProc, id)
  \/ \E id \in TaskIds : ExecBegin(ApiProc, id)
  \/ PreWrite(ApiProc)
  \/ \E out \in CollaboratorOutcomes : ExecEnd(ApiProc, out)
  \/ PostWrite(ApiProc)
  \/ ScanEnd(ApiProc)

\* the API server alone with one stored task, its request thread and its
\* scheduling loop, while the clock runs through the instants of Clock and the
\* days of Days
ClockSpec == ClockInit /\ [][ClockNext]_vars

(* --------------------- the watchdog daemon's threads -------------------- *)
\* what the file holds when the daemon starts: no task, or one task never attempted
StoredAtStart ==
  {NoTasks} \cup
  {[NoTasks EXCEPT ![1] = NewTask(1, o, m, i, d)] :
     o \in AddOwners, m \in AddMaxAttempts, i \in AddIntervals, d \in AddDates}

\* the daemon has constructed its scheduler, which loaded the file, and is about
\* to call SchedulerWatchdog.start; the day is the tasks' date or the day after
LoopInit ==
  /\ fileExists = TRUE
  /\ \E stored \in StoredAtStart :
       /\ disk = Serialize(stored)
       /\ mem = [p \in Procs |-> IF p = DaemonProc THEN Deserialize(disk) ELSE NoTasks]
  /\ mtime = 1
  /\ tmp = None
  /\ lock = None
  /\ today \in {0, 1}
  /\ now = today * DayMinutes
  /\ lastMtime = [p \in Procs |-> None]
  /\ lastCleanup = [p \in Procs |-> None]
  /\ loop = [p \in Procs |-> [IdleLoop EXCEPT !.pc = "exited"]]
  /\ snapObjs = [p \in Procs |-> NoTasks]
  /\ api = [p \in Procs |-> IF p = DaemonProc THEN [IdleApi EXCEPT !.pc = "start"] ELSE IdleApi]
  /\ nextId = MaxTasks + 1
  /\ invoked = [i \in TaskIds |-> 0]
  /\ succeeded = [i \in TaskIds |-> FALSE]
  /\ cancelAck = [i \in TaskIds |-> FALSE]
  /\ refused = [i \in TaskIds |-> FALSE]
  /\ lastInvoke = [p \in Procs |-> [i \in TaskIds |-> None]]
  /\ removedAt = [i \in TaskIds |-> None]
  /\ running = [p \in Procs |-> FALSE]
  /\ watching = FALSE
  /\ older = [p \in Procs |-> NoWorker]
  /\ restarted = FALSE
  /\ skipped = [p \in Procs |-> {}]
  /\ backup = None
  /\ damage = "none"
  /\ ret = NoReturn
  /\ ackAtScan = [p \in Procs |-> {}]
  /\ calls = 0
  /\ cycles = 0

\* a monitoring pass of the watchdog
MonitorPass(p) == CallBody(p, "watchdog", 0, None, FALSE) /\ UNCHANGED calls

\* the steps of the monitoring thread
MonitorStep(p) ==
  WatchdogStart(p) \/ MonitorPass(p) \/ LoadRead(p) \/ ApiWrite(p) \/ JoinEnds(p)

\* the steps of the worker thread other than a failure of its cycle
WorkerStep(p) ==
  \/ StartCycle(p) /\ UNCHANGED cycles
  \/ \E id \in TaskIds : ScanSkip(p, id)
  \/ \E id \in TaskIds : ExecBegin(p, id)
  \/ PreWrite(p)
  \/ \E out \in CollaboratorOutcomes : ExecEnd(p, out)
  \/ PostWrite(p)
  \/ ScanEnd(p)
  \/ BackoffEnd(p)
  \/ LoopExit(p)

LoopNext ==
  \/ WatchdogStart(DaemonProc)
  \/ MonitorPass(DaemonProc)
  \/ LoadRead(DaemonProc)
  \/ ApiWrite(DaemonProc)
  \/ WatchdogStop(DaemonProc)
  \/ StopScheduler(DaemonProc)
  \/ JoinEnds(DaemonProc)
  \/ Switch(DaemonProc)
  \/ CycleRaises(DaemonProc)
  \/ StartCycle(DaemonProc) /\ UNCHANGED cycles
  \/ \E id \in TaskIds : ScanSkip(DaemonProc, id)
  \/ \E id \in TaskIds : ExecBegin(DaemonProc, id)
  \/ PreWrite(DaemonProc)
  \/ \E out \in CollaboratorOutcomes : ExecEnd(DaemonProc, out)
  \/ PostWrite(DaemonProc)
  \/ ScanEnd(DaemonProc)
  \/ BackoffEnd(DaemonProc)
  \/ LoopExit(DaemonProc)

\* the watchdog daemon alone, from its start: its monitoring thread and its worker
\* thread, each of which takes its next step whenever it has one (a sleep ends, a
\* call returns), with any number of scan cycles and monitoring passes
LoopSpec ==
  /\ LoopInit
  /\ [][LoopNext]_vars
  /\ WF_vars(MonitorStep(DaemonProc))
  /\ WF_vars(WorkerStep(DaemonProc))

(* ---------------- the daemon's worker threads, two tasks stored -------------- *)
\* what the file holds when the daemon starts: two tasks never attempted
TwoStoredAtStart ==
  {[i \in TaskIds |-> NewTask(i, o, m, n, d)] :
     o \in AddOwners, m \in AddMaxAttempts, n \in AddIntervals, d \in AddDates}

\* the daemon has constructed its scheduler, which loaded the file, and is about
\* to call SchedulerWatchdog.start
WorkerInit ==
  /\ fileExists = TRUE
  /\ \E stored \in TwoStoredAtStart :
       /\ disk = Serialize(stored)
       /\ mem = [p \in Procs |-> IF p = DaemonProc THEN Deserialize(disk) ELSE NoTasks]
  /\ mtime = 1
  /\ tmp = None
  /\ lock = None
  /\ today \in {0, 1}
  /\ now = today * DayMinutes
  /\ lastMtime = [p \in Procs |-> None]
  /\ lastCleanup = [p \in Procs |-> None]
  /\ loop = [p \in Procs |-> [IdleLoop EXCEPT !.pc = "exited"]]
  /\ snapObjs = [p \in Procs |-> NoTasks]
  /\ api = [p \in Procs |-> IF p = DaemonProc THEN [IdleApi EXCEPT !.pc = "start"] ELSE IdleApi]
  /\ nextId = MaxTasks + 1
  /\ invoked = [i \in TaskIds |-> 0]
  /\ succeeded = [i \in TaskIds |-> FALSE]
  /\ cancelAck = [i \in TaskIds |-> FALSE]
  /\ refused = [i \in TaskIds |-> FALSE]
  /\ lastInvoke = [p \in Procs |-> [i \in TaskIds |-> None]]
  /\ removedAt = [i \in TaskIds |-> None]
  /\ running = [p \in Procs |-> FALSE]
  /\ watching = FALSE
  /\ older = [p \in Procs |-> NoWorker]
  /\ restarted = FALSE
  /\ skipped = [p \in Procs |-> {}]
  /\ backup = None
  /\ damage = "none"
  /\ ret = NoReturn
  /\ ackAtScan = [p \in Procs |-> {}]
  /\ calls = 0
  /\ cycles = 0

\* the steps of the daemon when it starts with tasks in memory and no other
\* process writes the file: the _load_tasks of a monitoring pass returns at its
\* guard (247), so no load goes on to the file
WorkerNext ==
  \/ WatchdogStart(DaemonProc)
  \/ MonitorPass(DaemonProc)
  \/ ApiWrite(DaemonProc)
  \/ WatchdogStop(DaemonProc)
  \/ StopScheduler(DaemonProc)
  \/ JoinEnds(DaemonProc)
  \/ Switch(DaemonProc)
  \/ CycleRaises(DaemonProc)
  \/ StartCycle(DaemonProc) /\ UNCHANGED cycles
  \/ \E id \in TaskIds : ScanSkip(DaemonProc, id)
  \/ \E id \in TaskIds : ExecBegin(DaemonProc, id)
  \/ PreWrite(DaemonProc)
  \/ \E out \in CollaboratorOutcomes : ExecEnd(DaemonProc, out)
  \/ PostWrite(DaemonProc)
  \/ ScanEnd(DaemonProc)
  \/ BackoffEnd(DaemonProc)
  \/ LoopExit(DaemonProc)

\* the watchdog daemon alone, from its start with two tasks stored: every
\* interleaving of its monitoring thread, its worker threads and the calls that
\* stop its scheduler
WorkerSpec == WorkerInit /\ [][WorkerNext]_vars

(* ------------- a restart after an interrupted attempt ------------------ *)
\* the attempts the file may record for the interrupted task, its limit included
ResumeAttempts == {1, 2}
ResumeMaxAttempts == {None, Some(2)}

\* what the file holds when the process starts: task 1 as the first save of
\* _execute_booking_task wrote it at instant 0 in a process that then died
InterruptedAtStart ==
  {[NoTasks EXCEPT ![1] =
      [NewTask(1, o, m, i, 0) EXCEPT !.status = "RUNNING", !.attempts = a,
                                     !.last_attempt = Some([t |-> 0, tzinfo |-> "utc"])]] :
     o \in AddOwners, m \in ResumeMaxAttempts, i \in AddIntervals, a \in ResumeAttempts}

\* the API server has constructed its scheduler, which loaded the file, and has
\* started its worker thread
ResumeInit ==
  /\ fileExists = TRUE
  /\ \E stored \in InterruptedAtStart :
       /\ disk = Serialize(stored)
       /\ mem = [p \in Procs |-> IF p = ApiProc THEN Deserialize(disk) ELSE NoTasks]
  /\ mtime = 1
  /\ tmp = None
  /\ lock = None
  /\ now = 0
  /\ today = 0
  /\ lastMtime = [p \in Procs |-> IF p = ApiProc THEN Some(1) ELSE None]
  /\ lastCleanup = [p \in Procs |-> None]
  /\ loop = [p \in Procs |-> IdleLoop]
  /\ snapObjs = [p \in Procs |-> NoTasks]
  /\ api = [p \in Procs |-> IdleApi]
  /\ nextId = MaxTasks + 1
  /\ invoked = [i \in TaskIds |-> 0]
  /\ succeeded = [i \in TaskIds |-> FALSE]
  /\ cancelAck = [i \in TaskIds |-> FALSE]
  /\ refused = [i \in TaskIds |-> FALSE]
  /\ lastInvoke = [p \in Procs |-> [i \in TaskIds |-> None]]
  /\ removedAt = [i \in TaskIds |-> None]
  /\ running = [p \in Procs |-> TRUE]
  /\ watching = TRUE
  /\ older = [p \in Procs |-> NoWorker]
  /\ restarted = FALSE
  /\ skipped = [p \in Procs |-> {}]
  /\ backup = None
  /\ damage = "none"
  /\ ret = NoReturn
  /\ ackAtScan = [p \in Procs |-> {}]
  /\ calls = 0
  /\ cycles = 0

ResumeNext ==
  \/ Tick
  \/ DayTick
  \/ StartCycle(ApiProc) /\ UNCHANGED cycles
  \/ \E id \in TaskIds : ScanSkip(ApiProc, id)
  \/ \E id \in TaskIds : ExecBegin(ApiProc, id)
  \/ PreWrite(ApiProc)
  \/ \E out \in CollaboratorOutcomes : ExecEnd(ApiProc, out)
  \/ PostWrite(ApiProc)
  \/ ScanEnd(ApiProc)

\* the API server alone after a restart, its worker thread taking its next step
\* whenever it has one, while the clock runs through the instants of Clock and
\* the days of Days
ResumeSpec == ResumeInit /\ [][ResumeNext]_vars /\ WF_vars(WorkerStep(ApiProc))

(* ------------------- the predicates of a BookingTask ------------------- *)
\* the day and the minutes of that day (UTC) at which the predicates are called:
\* midnight, the minute before and the minute of midnight in Taiwan, and the last
\* minute of the day
PureDay == 1
PureMinutes == {0, 16 * 60 - 1, 16 * 60, DayMinutes - 1}
PureDates == {MalformedDate, PureDay - 1, PureDay, PureDay + 1, FarDate + PureDay + 1}
PureAttempts == 0..3
PureMaxAttempts == {None} \cup {Some(n) : n \in 0..3}

\* the task the predicates are called on
PureTasks ==
  {[NewTask(1, Some("alice"), m, 30, d) EXCEPT
      !.attempts = a,
      !.last_attempt = IF a = 0 THEN None ELSE Some([t |-> 0, tzinfo |-> "utc"])] :
    m \in PureMaxAttempts, d \in PureDates, a \in PureAttempts}

PureInit ==
  /\ \E task \in PureTasks : mem = [p \in Procs |-> [NoTasks EXCEPT ![1] = task]]
  /\ \E minute \in PureMinutes : now = PureDay * DayMinutes + minute
  /\ today = PureDay
  /\ fileExists = TRUE
  /\ disk = Serialize(mem[ApiProc])
  /\ mtime = 1
  /\ tmp = None
  /\ lock = None
  /\ lastMtime = [p \in Procs |-> None]
  /\ lastCleanup = [p \in Procs |-> None]
  /\ loop = [p \in Procs |-> IdleLoop]
  /\ snapObjs = [p \in Procs |-> NoTasks]
  /\ api = [p \in Procs |-> IdleApi]
  /\ nextId = 2
  /\ invoked = [i \in TaskIds |-> 0]
  /\ succeeded = [i \in TaskIds |-> FALSE]
  /\ cancelAck = [i \in TaskIds |-> FALSE]
  /\ refused = [i \in TaskIds |-> FALSE]
  /\ lastInvoke = [p \in Procs |-> [i \in TaskIds |-> None]]
  /\ removedAt = [i \in TaskIds |-> None]
  /\ running = [p \in Procs |-> TRUE]
  /\ watching = TRUE
  /\ older = [p \in Procs |-> NoWorker]
  /\ restarted = FALSE
  /\ skipped = [p \in Procs |-> {}]
  /\ backup = None
  /\ damage = "none"
  /\ ret = NoReturn
  /\ ackAtScan = [p \in Procs |-> {}]
  /\ calls = 0
  /\ cycles = 0

\* what a call of one of the predicates leaves alone
calleeVars ==
  <<calls, cycles, fileVars, clockVars, mem, lastMtime, lastCleanup, loop, snapObjs, api,
    nextId, histVars, running, watching, older, restarted, skipped, backup, damage>>

\* a call of one of the predicates on task 1 of p, and what it returns
CallIsExpired(p) ==
  /\ ret' = [fn |-> "is_expired", value |-> is_expired(mem[p][1])]
  /\ UNCHANGED calleeVars

CallShouldStop(p) ==
  /\ ret' = [fn |-> "should_stop", value |-> should_stop(mem[p][1])]
  /\ UNCHANGED calleeVars

CallIsTicketSalesOpen(p) ==
  /\ ret' = [fn |-> "is_ticket_sales_open", value |-> is_ticket_sales_open(mem[p][1].date)]
  /\ UNCHANGED calleeVars

PureNext ==
  \/ CallIsExpired(ApiProc)
  \/ CallShouldStop(ApiProc)
  \/ CallIsTicketSalesOpen(ApiProc)

PureSpec == PureInit /\ [][PureNext]_vars

(* --------------------- to_dict and from_dict --------------------------- *)
\* the tasks the conversions are called on: every status, optional fields absent
\* or present, time stamps absent or with each tzinfo
RoundTripTimes == {None} \cup {Some([t |-> 30, tzinfo |-> z]) : z \in TzInfos}
RoundTripTasks ==
  {[NewTask(1, o, m, 30, 0) EXCEPT
      !.status = st,
      !.last_attempt = la,
      !.attempts = IF la = None THEN 0 ELSE 1,
      !.success_pnr = IF st = "SUCCESS" THEN Some("PNR") ELSE None,
      !.error_message = e] :
    o \in {None, Some("alice")}, m \in {None, Some(1)}, st \in BookingStatus,
    la \in RoundTripTimes, e \in {None, Some("error")}}

\* what from_dict returns for the dictionary data, or the exception it raises
from_dict_result(data) ==
  IF data.last_attempt # None /\ FromIsoRaises(data.last_attempt[1])
  THEN [raised |-> "ValueError"]
  ELSE from_dict(data)

RoundTripInit ==
  /\ \E task \in RoundTripTasks : mem = [p \in Procs |-> [NoTasks EXCEPT ![1] = task]]
  /\ now = 30
  /\ today = 0
  /\ fileExists = FALSE
  /\ disk = NoTasks
  /\ mtime = 0
  /\ tmp = None
  /\ lock = None
  /\ lastMtime = [p \in Procs |-> None]
  /\ lastCleanup = [p \in Procs |-> None]
  /\ loop = [p \in Procs |-> IdleLoop]
  /\ snapObjs = [p \in Procs |-> NoTasks]
  /\ api = [p \in Procs |-> IdleApi]
  /\ nextId = 2
  /\ invoked = [i \in TaskIds |-> 0]
  /\ succeeded = [i \in TaskIds |-> FALSE]
  /\ cancelAck = [i \in TaskIds |-> FALSE]
  /\ refused = [i \in TaskIds |-> FALSE]
  /\ lastInvoke = [p \in Procs |-> [i \in TaskIds |-> None]]
  /\ removedAt = [i \in TaskIds |-> None]
  /\ running = [p \in Procs |-> FALSE]
  /\ watching = FALSE
  /\ older = [p \in Procs |-> NoWorker]
  /\ restarted = FALSE
  /\ skipped = [p \in Procs |-> {}]
  /\ backup = None
  /\ damage = "none"
  /\ ret = NoReturn
  /\ ackAtScan = [p \in Procs |-> {}]
  /\ calls = 0
  /\ cycles = 0

\* task.to_dict() on task 1 of p
CallToDict(p) ==
  /\ ret' = [fn |-> "to_dict", value |-> to_dict(mem[p][1])]
  /\ UNCHANGED calleeVars

\* BookingTask.from_dict(task.to_dict()) on task 1 of p
CallFromDict(p) ==
  /\ ret' = [fn |-> "from_dict", value |-> from_dict_result(to_dict(mem[p][1]))]
  /\ UNCHANGED calleeVars

RoundTripNext == CallToDict(ApiProc) \/ CallFromDict(ApiProc)

RoundTripSpec == RoundTripInit /\ [][RoundTripNext]_vars

(* ---------------------- loads of a damaged file ------------------------ *)
\* the task sets the API server may hold and the file may hold
LoadMaps ==
  {NoTasks,
   [NoTasks EXCEPT ![1] = NewTask(1, Some("alice"), None, 30, 0)],
   [i \in TaskIds |-> IF i <= 2 THEN NewTask(i, Some("alice"), None, 30, 0) ELSE NoTask]}

\* the storage file: absent, or holding a task set, or damaged
LoadFiles ==
  {[exists |-> FALSE, content |-> NoTasks, damage |-> "none"]} \cup
  {[exists |-> TRUE, content |-> Serialize(m), damage |-> "none"] : m \in LoadMaps} \cup
  {[exists |-> TRUE, content |-> NoTasks, damage |-> d] : d \in DamageKinds} \cup
  {[exists |-> TRUE, content |-> Serialize(m), damage |-> "bad_record"] :
     m \in {n \in LoadMaps : Cardinality(Ids(n)) = 1}}

\* the API server holds a task set and has recorded a modification time or
\* none; the storage file was last changed by someone else; the lock file is
\* absent or is held by the _load_tasks of a monitoring pass of the daemon
LoadInit ==
  /\ \E f \in LoadFiles :
       /\ fileExists = f.exists
       /\ disk = f.content
       /\ damage = f.damage
  /\ \E m \in LoadMaps : mem = [p \in Procs |-> IF p = ApiProc THEN m ELSE NoTasks]
  /\ mtime = 2
  /\ \E seen \in {None, Some(1), Some(2)} :
       lastMtime = [p \in Procs |-> IF p = ApiProc THEN seen ELSE None]
  /\ \E held \in BOOLEAN :
       /\ held => fileExists
       /\ lock = IF held THEN <<DaemonProc, "api">> ELSE None
       /\ api = [p \in Procs |->
                  IF p = DaemonProc /\ held
                  THEN [pc |-> "load", op |-> "watchdog", id |-> 0, uid |-> None,
                        locked |-> TRUE]
                  ELSE IdleApi]
  /\ tmp = None
  /\ now = 0
  /\ today = 0
  /\ lastCleanup = [p \in Procs |-> None]
  /\ loop = [p \in Procs |-> IdleLoop]
  /\ snapObjs = [p \in Procs |-> NoTasks]
  /\ nextId = MaxTasks + 1
  /\ invoked = [i \in TaskIds |-> 0]
  /\ succeeded = [i \in TaskIds |-> FALSE]
  /\ cancelAck = [i \in TaskIds |-> FALSE]
  /\ refused = [i \in TaskIds |-> FALSE]
  /\ lastInvoke = [p \in Procs |-> [i \in TaskIds |-> None]]
  /\ removedAt = [i \in TaskIds |-> None]
  /\ running = [p \in Procs |-> TRUE]
  /\ watching = TRUE
  /\ older = [p \in Procs |-> NoWorker]
  /\ restarted = FALSE
  /\ skipped = [p \in Procs |-> {}]
  /\ backup = None
  /\ ret = NoReturn
  /\ ackAtScan = [p \in Procs |-> {}]
  /\ calls = 0
  /\ cycles = 0

\* the calls served by the request thread of the API server, and the loads and
\* saves of the two request threads
LoadNext ==
  \/ \E op \in {"cancel", "remove", "get", "list"}, id \in TaskIds \cup {0},
        uid \in {None} \cup {Some(u) : u \in Users}, force \in BOOLEAN :
       CallBegin(ApiProc, op, id, uid, force)
  \/ \E p \in Procs : LoadRead(p)
  \/ \E p \in Procs : ApiWrite(p)
  \/ \E p \in Procs : WriteRaises(p)

LoadSpec == LoadInit /\ [][LoadNext]_vars

(* ------------------ both processes, one task stored -------------------- *)
\* the API server has stored task 1 with add_task and the daemon, started after
\* that, has read it in the _load_tasks of its constructor
StoreInit ==
  /\ fileExists = TRUE
  /\ disk = Serialize([NoTasks EXCEPT ![1] = NewTask(1, Some("alice"), None, 30, 0)])
  /\ mem = [p \in Procs |-> Deserialize(disk)]
  /\ mtime = 1
  /\ tmp = None
  /\ lock = None
  /\ now = 0
  /\ today = 0
  /\ lastMtime = [p \in Procs |-> IF p = ApiProc THEN Some(1) ELSE None]
  /\ lastCleanup = [p \in Procs |-> None]
  /\ loop = [p \in Procs |-> IdleLoop]
  /\ snapObjs = [p \in Procs |-> NoTasks]
  /\ api = [p \in Procs |-> IdleApi]
  /\ nextId = 2
  /\ invoked = [i \in TaskIds |-> 0]
  /\ succeeded = [i \in TaskIds |-> FALSE]
  /\ cancelAck = [i \in TaskIds |-> FALSE]
  /\ refused = [i \in TaskIds |-> FALSE]
  /\ lastInvoke = [p \in Procs |-> [i \in TaskIds |-> None]]
  /\ removedAt = [i \in TaskIds |-> None]
  /\ running = [p \in Procs |-> TRUE]
  /\ watching = TRUE
  /\ older = [p \in Procs |-> NoWorker]
  /\ restarted = FALSE
  /\ skipped = [p \in Procs |-> {}]
  /\ backup = None
  /\ damage = "none"
  /\ ret = NoReturn
  /\ ackAtScan = [p \in Procs |-> {}]
  /\ calls = 0
  /\ cycles = 0

\* the calls served by the request thread of the API server and the scan cycles
\* of the scheduling loop of the daemon
StoreNext ==
  \/ \E o \in AddOwners, m \in AddMaxAttempts, i \in AddIntervals, d \in AddDates :
       AddTask(ApiProc, o, m, i, d)
  \/ \E op \in {"cancel", "remove", "get", "list"}, id \in TaskIds \cup {0},
        uid \in {None} \cup {Some(u) : u \in Users}, force \in BOOLEAN :
       CallBegin(ApiProc, op, id, uid, force)
  \/ LoadRead(ApiProc)
  \/ ApiWrite(ApiProc)
  \/ ScanStart(DaemonProc)
  \/ \E id \in TaskIds : ScanSkip(DaemonProc, id)
  \/ \E id \in TaskIds : ExecBegin(DaemonProc, id)
  \/ PreWrite(DaemonProc)
  \/ \E out \in CollaboratorOutcomes : ExecEnd(DaemonProc, out)
  \/ PostWrite(DaemonProc)
  \/ ScanEnd(DaemonProc)

\* every interleaving of those calls, loads, saves and scan cycles from there
StoreSpec == StoreInit /\ [][StoreNext]_vars

(* --------------------------- _save_tasks_safe -------------------------- *)
\* the merge loop of _save_tasks_safe: ours is the map held before the reload,
\* loaded the map _load_tasks(force=True) read
MergedTask(task, existing_task) ==
  IF existing_task = NoTask THEN task
  ELSE IF task = NoTask THEN existing_task
  ELSE IF task.status \in Completed THEN task
  ELSE IF \/ /\ task.last_attempt # None
             /\ existing_task.last_attempt # None
             /\ task.last_attempt[1].t > existing_task.last_attempt[1].t
          \/ task.attempts > existing_task.attempts
       THEN task
  ELSE existing_task

Merge(ours, loaded) == [i \in TaskIds |-> MergedTask(ours[i], loaded[i])]

\* _save_tasks_safe with the lock file free throughout: the reload and merge when
\* the file's mtime advanced, then _save_tasks
SaveTasksSafe(p) ==
  /\ api[p].pc = "idle"
  /\ lock = None
  /\ mtime < MaxMtime
  /\ LET m == IF _should_reload_tasks(p) THEN Merge(mem[p], Deserialize(disk)) ELSE mem[p]
     IN /\ mem' = [mem EXCEPT ![p] = m]
        /\ disk' = Serialize(m)
  /\ fileExists' = TRUE
  /\ mtime' = mtime + 1
  /\ damage' = Replaced(damage)
  /\ lastMtime' = [lastMtime EXCEPT ![p] = Some(mtime + 1)]
  /\ UNCHANGED <<tmp, lock, clockVars, lastCleanup, loop, snapObjs, api, nextId, histVars,
                 running, watching, older, restarted, skipped, backup, ret, budgetVars>>

\* two copies of task 1, one in the memory of the API server and one written to
\* the file by another process since the server last looked
SnapshotStatus == {"PENDING", "RUNNING", "SUCCESS", "CANCELLED"}
SnapshotTimes == {None, Some([t |-> 0, tzinfo |-> "utc"]), Some([t |-> 30, tzinfo |-> "utc"])}
SnapshotFields ==
  {f \in SnapshotStatus \X (0..MaxInvocations) \X SnapshotTimes :
     /\ f[1] \in {"RUNNING", "SUCCESS"} => f[2] >= 1
     /\ (f[3] = None) <=> (f[2] = 0)}
Snapshots ==
  {[NewTask(1, Some("alice"), None, 30, 0) EXCEPT
      !.status = f[1], !.attempts = f[2], !.last_attempt = f[3],
      !.success_pnr = IF f[1] = "SUCCESS" THEN Some("PNR") ELSE None] :
    f \in SnapshotFields}

MergeInit ==
  /\ fileExists = TRUE
  /\ \E ours \in Snapshots, theirs \in Snapshots :
       /\ mem = [p \in Procs |-> IF p = ApiProc THEN [NoTasks EXCEPT ![1] = ours]
                                 ELSE NoTasks]
       /\ disk = Serialize([NoTasks EXCEPT ![1] = theirs])
  /\ mtime = 2
  /\ lastMtime = [p \in Procs |-> IF p = ApiProc THEN Some(1) ELSE None]
  /\ tmp = None
  /\ lock = None
  /\ now = 30
  /\ today = 0
  /\ lastCleanup = [p \in Procs |-> None]
  /\ loop = [p \in Procs |-> IdleLoop]
  /\ snapObjs = [p \in Procs |-> NoTasks]
  /\ api = [p \in Procs |-> IdleApi]
  /\ nextId = 2
  /\ invoked = [i \in TaskIds |-> 0]
  /\ succeeded = [i \in TaskIds |-> FALSE]
  /\ cancelAck = [i \in TaskIds |-> FALSE]
  /\ refused = [i \in TaskIds |-> FALSE]
  /\ lastInvoke = [p \in Procs |-> [i \in TaskIds |-> None]]
  /\ removedAt = [i \in TaskIds |-> None]
  /\ running = [p \in Procs |-> TRUE]
  /\ watching = TRUE
  /\ older = [p \in Procs |-> NoWorker]
  /\ restarted = FALSE
  /\ skipped = [p \in Procs |-> {}]
  /\ backup = None
  /\ damage = "none"
  /\ ret = NoReturn
  /\ ackAtScan = [p \in Procs |-> {}]
  /\ calls = 0
  /\ cycles = 0

MergeNext == SaveTasksSafe(ApiProc)

MergeSpec == MergeInit /\ [][MergeNext]_vars

(* -------------- a process dies inside _save_tasks ---------------------- *)
\* the daemon is killed while its worker thread is between the creation of the
\* lock file (337) and its removal (361): the lock file and the temporary file
\* stay, the worker thread is gone
Crash(p) ==
  /\ p = DaemonProc
  /\ lock = <<p, "loop">>
  /\ loop' = [loop EXCEPT ![p] = [IdleLoop EXCEPT !.pc = "exited"]]
  /\ snapObjs' = [snapObjs EXCEPT ![p] = NoTasks]
  /\ running' = [running EXCEPT ![p] = FALSE]
  /\ UNCHANGED <<calls, cycles, fileVars, clockVars, mem, lastMtime, lastCleanup, api, nextId,
                 histVars, watching, older, restarted, skipped, backup, damage, ret>>

\* a cancel_task or remove_task call for task 1 begins, whatever the number of
\* calls made before
ChangeCall(p) ==
  /\ \E op \in {"cancel", "remove"} : CallBody(p, op, 1, None, FALSE)
  /\ UNCHANGED calls

\* the steps of the request thread
RequestStep(p) == ChangeCall(p) \/ LoadRead(p) \/ ApiWrite(p)

CrashNext ==
  \/ ChangeCall(ApiProc)
  \/ LoadRead(ApiProc)
  \/ ApiWrite(ApiProc)
  \/ ScanStart(DaemonProc)
  \/ \E id \in TaskIds : ScanSkip(DaemonProc, id)
  \/ \E id \in TaskIds : ExecBegin(DaemonProc, id)
  \/ PreWrite(DaemonProc)
  \/ \E out \in CollaboratorOutcomes : ExecEnd(DaemonProc, out)
  \/ PostWrite(DaemonProc)
  \/ ScanEnd(DaemonProc)
  \/ Crash(DaemonProc)

\* the API server, whose request thread serves cancel_task and remove_task calls
\* without end, and the daemon, whose worker thread runs its scan cycles and may
\* be killed inside a save; each live thread takes its next step whenever it has
\* one
CrashSpec ==
  /\ StoreInit
  /\ [][CrashNext]_vars
  /\ WF_vars(RequestStep(ApiProc))
  /\ WF_vars(WorkerStep(DaemonProc))

(* ============================== the claims ============================= *)
CallerIds == {None} \cup {Some(u) : u \in Users}

\* the request thread of p takes a step of a cancel_task or remove_task call on id
StatusCallStep(p, id) ==
  \/ \E op \in {"cancel", "remove"}, uid \in CallerIds : CallBegin(p, op, id, uid, FALSE)
  \/ /\ api[p].op \in {"cancel", "remove"}
     /\ api[p].id = id
     /\ api'[p] # api[p]

\* the scheduler thread of p takes a step
LoopStep(p) == loop'[p] # loop[p] /\ api'[p] = api[p]

\* a step replaces the data file
FileWritten == mtime' # mtime

\* the scheduler thread of p calls run_booking_flow for id in this step
InvokeStep(p, id) ==
  loop[p].pc # "inflight" /\ loop'[p].pc = "inflight" /\ loop'[p].cur = id

\* the task object the thread of p holds for id after the step
ObjAfter(p, id) == IF loop'[p].orphaned THEN snapObjs'[p][id] ELSE mem'[p][id]

CompletedValues == {StatusValue(st) : st \in Completed}

\* C1: a task that is SUCCESS, CANCELLED or DELETED in a process's map keeps that
\* status through every step of that process's scan cycle and driver, and one that
\* is so in the data file keeps it through every write of the file other than the
\* write of a cancel_task or remove_task call on that task.
C1_CompletedStatusKept ==
  [][/\ \A p \in Procs, id \in TaskIds :
          (/\ LoopStep(p)
           /\ mem[p][id] # NoTask
           /\ mem[p][id].status \in Completed
           /\ mem'[p][id] # NoTask)
          => mem'[p][id].status = mem[p][id].status
     /\ \A id \in TaskIds :
          (/\ FileWritten
           /\ disk[id] # NoTask
           /\ disk[id].status \in CompletedValues
           /\ disk'[id] # NoTask
           /\ ~\E p \in Procs : StatusCallStep(p, id))
          => disk'[id].status = disk[id].status]_vars

\* C2: once the driver has recorded SUCCESS for a task, run_booking_flow is not
\* called for it again, a map that shows it SUCCESS keeps showing it SUCCESS with
\* its PNR, and so does the data file once it shows it (steps of a cancel_task or
\* remove_task call on the task aside).
C2_SuccessNeverReverted ==
  [][\A id \in TaskIds :
       succeeded[id] =>
         /\ invoked'[id] = invoked[id]
         /\ \A p \in Procs :
              (/\ mem[p][id] # NoTask
               /\ mem[p][id].status = "SUCCESS"
               /\ ~StatusCallStep(p, id))
              => /\ mem'[p][id] # NoTask
                 /\ mem'[p][id].status = "SUCCESS"
                 /\ mem'[p][id].success_pnr = mem[p][id].success_pnr
         /\ (/\ disk[id] # NoTask
             /\ disk[id].status = "success"
             /\ ~\E p \in Procs : StatusCallStep(p, id))
            => /\ disk'[id] # NoTask
               /\ disk'[id].status = "success"
               /\ disk'[id].success_pnr = disk[id].success_pnr]_vars

\* C3: the attempts counter of a task never goes down, in any process's map and
\* in the data file.
C3_AttemptsNeverDecrease ==
  [][\A id \in TaskIds :
       /\ \A p \in Procs :
            (mem[p][id] # NoTask /\ mem'[p][id] # NoTask)
            => mem'[p][id].attempts >= mem[p][id].attempts
       /\ (disk[id] # NoTask /\ disk'[id] # NoTask)
          => disk'[id].attempts >= disk[id].attempts]_vars

\* C4: when _save_tasks_safe merges the map with a changed file and the task is
\* SUCCESS in one of the two copies and PENDING in the other, it writes SUCCESS.
C4_MergeKeepsSuccess ==
  [][\A p \in Procs, id \in TaskIds :
       (/\ SaveTasksSafe(p)
        /\ _should_reload_tasks(p)
        /\ mem[p][id] # NoTask
        /\ disk[id] # NoTask
        /\ {mem[p][id].status, StatusOfValue(disk[id].status)} = {"SUCCESS", "PENDING"})
       => disk'[id].status = "success"]_vars

\* C5: run_booking_flow is called at most max_attempts times for a task whose
\* max_attempts is set.
C5_InvokedAtMostMaxAttempts ==
  \A p \in Procs, id \in TaskIds :
    (/\ mem[p][id] # NoTask
     /\ mem[p][id].max_attempts # None
     /\ mem[p][id].max_attempts[1] >= 1)
    => invoked[id] <= mem[p][id].max_attempts[1]

\* C6: once cancel_task has returned True for a task, no scan cycle that began
\* afterwards executes it, and the map of the process that cancelled it shows it
\* CANCELLED (or DELETED, after remove_task).
C6_CancelledNotExecuted ==
  /\ \A p \in Procs :
       loop[p].pc \in {"pre_write", "inflight", "post_write"}
       => loop[p].cur \notin ackAtScan[p]
  /\ \A id \in TaskIds :
       (cancelAck[id] /\ mem[ApiProc][id] # NoTask)
       => mem[ApiProc][id].status \in {"CANCELLED", "DELETED"}

\* a step of a cancel_task or remove_task call of p on id with a caller id that is
\* given and is not the owner of the task
DeniedCallStep(p, id, uid) ==
  /\ uid # None
  /\ mem[p][id] # NoTask
  /\ mem[p][id].user_id # uid
  /\ \/ \E op \in {"cancel", "remove"} : CallBegin(p, op, id, uid, FALSE)
     \/ /\ api[p].pc = "load"
        /\ api[p].op \in {"cancel", "remove"}
        /\ api[p].id = id
        /\ api[p].uid = uid
        /\ LoadRead(p)

\* C7 as stated: a cancel_task or remove_task call by a caller who is not the owner
\* leaves the task as it was, in the map and in the data file.
C7_DeniedCallChangesNothing ==
  [][\A p \in Procs, id \in TaskIds, uid \in CallerIds :
       DeniedCallStep(p, id, uid)
       => /\ mem'[p][id] = mem[p][id]
          /\ disk'[id] = disk[id]]_vars

\* C7 amended: such a call returns False without setting the status and without
\* staging or writing a file; the map is as it was, or, when the call's own
\* _load_tasks read the file, it is what the file holds.
C7_DeniedCallWritesNothing ==
  [][\A p \in Procs, id \in TaskIds, uid \in CallerIds :
       DeniedCallStep(p, id, uid)
       => /\ disk' = disk /\ fileExists' = fileExists /\ mtime' = mtime /\ tmp' = tmp
          /\ api'[p].pc \in {"idle", "load"}
          /\ cancelAck' = cancelAck
          /\ (api'[p].pc = "idle" /\ mem'[p][id] # NoTask) => refused'[id]
          /\ \/ mem'[p] = mem[p]
             \/ api[p].pc = "load" /\ mem'[p] = Deserialize(disk)]_vars

\* C7 witness: a caller who is not the owner has been turned away, and the task is
\* in the map and in the file, neither CANCELLED nor DELETED
C7_Witness ==
  \E p \in Procs, id \in TaskIds :
    /\ refused[id]
    /\ api[p].pc = "idle"
    /\ mem[p][id] # NoTask
    /\ mem[p][id].user_id = Some("alice")
    /\ mem[p][id].status \notin {"CANCELLED", "DELETED"}
    /\ disk[id] # NoTask
    /\ disk[id].status \notin {"cancelled", "deleted"}

\* add_task on p returns id in this step
AddReturns(p, id) ==
  \/ /\ p = ApiProc
     /\ api[p].pc = "idle"
     /\ nextId' = nextId + 1
     /\ id = nextId
     /\ api'[p].pc = "idle"
  \/ /\ api[p].pc = "write"
     /\ api[p].op = "add"
     /\ api[p].id = id
     /\ api'[p].pc = "idle"

\* C8: when add_task returns an id, the task is in the map and in the data file.
C8_AddedTaskIsStored ==
  [][\A p \in Procs, id \in TaskIds :
       AddReturns(p, id)
       => /\ mem'[p][id] # NoTask
          /\ fileExists'
          /\ disk'[id] # NoTask]_vars

\* C9: a scan cycle of a process that holds tasks works on the task set the data
\* file holds when the cycle begins: it sees what other processes have stored.
C9_ScanSeesStoredTasks ==
  [][\A p \in Procs :
       (loop[p].pc = "sleep" /\ loop'[p].pc = "scan" /\ ~MemEmpty(p))
       => \A id \in TaskIds :
            (fileExists /\ disk[id] # NoTask) => id \in loop'[p].todo]_vars

\* C10: when run_booking_flow is called for a task, the data file records the task
\* RUNNING with the attempts and last_attempt of this attempt.
C10_AttemptOnFileBeforeCall ==
  [][\A p \in Procs, id \in TaskIds :
       InvokeStep(p, id)
       => /\ fileExists'
          /\ disk'[id] # NoTask
          /\ disk'[id].status = "running"
          /\ disk'[id].attempts = ObjAfter(p, id).attempts
          /\ disk'[id].last_attempt = to_dict(ObjAfter(p, id)).last_attempt]_vars

\* the driver returns to the scan cycle of p for task id in this step
DriverReturns(p, id) ==
  /\ loop[p].pc \in {"inflight", "post_write"}
  /\ loop[p].cur = id
  /\ loop'[p].pc = "scan"

\* C11: when _execute_booking_task returns, the data file holds the task as the
\* attempt left it: SUCCESS with its PNR, or PENDING with its error message.
C11_FinalStateOnFile ==
  [][\A p \in Procs, id \in TaskIds :
       DriverReturns(p, id)
       => /\ fileExists'
          /\ disk'[id] # NoTask
          /\ disk'[id] = to_dict(ObjAfter(p, id))]_vars

\* the outcomes of run_booking_flow whose stdout contains "PNR Code:"
MarkerPrinted == {"pnr", "pnr_exc"}

\* C12: an attempt ends SUCCESS with a PNR exactly when the output of
\* run_booking_flow contains the success marker; otherwise, an exception
\* included, it ends PENDING with an error message, and the scan cycle goes on.
C12_SuccessIffMarker ==
  [][\A p \in Procs, out \in CollaboratorOutcomes :
       ExecEnd(p, out)
       => LET task == ObjAfter(p, loop[p].cur)
          IN /\ out \in MarkerPrinted
                => task.status = "SUCCESS" /\ task.success_pnr # None
             /\ out \notin MarkerPrinted
                => task.status = "PENDING" /\ task.error_message # None
             /\ loop'[p].pc \in {"scan", "post_write"}]_vars

\* the rows of the transition table; WAITING to RUNNING is the row WAITING to
\* PENDING followed by the row PENDING to RUNNING within one iteration
TableRow(from, to) ==
  \/ from \in {"PENDING", "WAITING", "RUNNING"} /\ to \in {"EXPIRED", "FAILED"}
  \/ from = "PENDING" /\ to = "WAITING"
  \/ from = "WAITING" /\ to \in {"PENDING", "RUNNING"}
  \/ from = "PENDING" /\ to = "RUNNING"
  \/ from = "RUNNING" /\ to \in {"SUCCESS", "PENDING"}
  \/ from \notin Completed /\ to = "CANCELLED"
  \/ to = "DELETED"

\* C14: every change of a task's status made by a scan cycle, the driver,
\* cancel_task, remove_task or the watchdog's expiry pass is a row of the
\* transition table (steps that read the file into the map aside).
C14_TransitionsFollowTable ==
  [][\A p \in Procs, id \in TaskIds :
       /\ (/\ api[p].pc # "load"
           /\ mem[p][id] # NoTask
           /\ mem'[p][id] # NoTask
           /\ mem'[p][id].status # mem[p][id].status)
          => TableRow(mem[p][id].status, mem'[p][id].status)
       /\ (/\ loop[p].orphaned
           /\ snapObjs[p][id] # NoTask
           /\ snapObjs'[p][id] # NoTask
           /\ snapObjs'[p][id].status # snapObjs[p][id].status)
          => TableRow(snapObjs[p][id].status, snapObjs'[p][id].status)]_vars

\* C13: run_booking_flow is never called for a task less than interval_minutes
\* after the previous call of run_booking_flow for that task by a scheduling loop
C13_AttemptsIntervalApart ==
  [][\A p \in Procs, q \in Procs, id \in TaskIds :
       InvokeStep(p, id) /\ lastInvoke[q][id] # None
       => now - lastInvoke[q][id][1] >= ObjAfter(p, id).interval_minutes]_vars

\* one iteration of the for loop of _process_tasks, for task id
Iteration(p, id) == ScanSkip(p, id) \/ ExecBegin(p, id)

\* C15: an iteration of a scan cycle that finds a task that is not SUCCESS,
\* CANCELLED or DELETED past its travel date leaves it EXPIRED, whatever its
\* attempts and its status were and whether or not its sale window is open, and
\* does not execute it; no iteration executes a task whose date has passed
C15_ExpiryCheckedFirst ==
  [][\A p \in Procs, id \in TaskIds :
       /\ (Iteration(p, id) /\ Obj(p, id).status \notin Completed /\ is_expired(Obj(p, id)))
          => /\ ObjAfter(p, id) = [Obj(p, id) EXCEPT !.status = "EXPIRED"]
             /\ ~ExecBegin(p, id)
             /\ invoked' = invoked
       /\ ExecBegin(p, id) => ~is_expired(Obj(p, id))]_vars

\* a task at its attempt limit that a scan cycle found past its date
C15_Witness ==
  \E id \in TaskIds :
    /\ mem[ApiProc][id] # NoTask
    /\ mem[ApiProc][id].status = "EXPIRED"
    /\ mem[ApiProc][id].max_attempts # None
    /\ mem[ApiProc][id].attempts >= mem[ApiProc][id].max_attempts[1]

\* does the iteration get as far as the sale-window gate
ReachesGate(task) ==
  task.status \notin Completed /\ ~is_expired(task) /\ ~should_stop(task)

\* C16: an iteration executes a task only if its sale window is open; run while
\* the window is closed, it leaves a PENDING task WAITING with attempts and
\* last_attempt as they were and calls nothing; run while the window is open, it
\* sets a WAITING task PENDING before the due check
C16_SaleWindowGate ==
  [][\A p \in Procs, id \in TaskIds :
       LET task == Obj(p, id)
       IN /\ ExecBegin(p, id) => is_ticket_sales_open(task.date)
          /\ (Iteration(p, id) /\ ReachesGate(task) /\ ~is_ticket_sales_open(task.date)
              /\ task.status = "PENDING")
             => /\ ObjAfter(p, id) = [task EXCEPT !.status = "WAITING"]
                /\ invoked' = invoked
                /\ loop'[p].pc = "scan"
          /\ (Iteration(p, id) /\ ReachesGate(task) /\ is_ticket_sales_open(task.date)
              /\ task.status = "WAITING")
             => /\ Checked(task).status = "PENDING"
                /\ ObjAfter(p, id) \in {Checked(task), Attempted(Checked(task))}]_vars

\* a scan cycle has ended that found the sale window of a task closed
C16_Witness ==
  \E id \in TaskIds :
    /\ mem[ApiProc][id] # NoTask
    /\ ~is_ticket_sales_open(mem[ApiProc][id].date)
    /\ mem[ApiProc][id].status = "WAITING"
    /\ mem[ApiProc][id].attempts = 0
    /\ invoked[id] = 0
    /\ loop[ApiProc].pc = "sleep"

\* the purge sweep of p runs in this step and deletes task id, which the file
\* holds as deleted, from self.tasks
SweepPurges(p, id) ==
  /\ ScanEnd(p)
  /\ CleanupRuns(p, loop[p].current_time)
  /\ id \in Purged(mem[p], loop[p].current_time)
  /\ disk[id] # NoTask
  /\ disk[id].status = "deleted"

\* C17: a DELETED task whose last_attempt is more than the grace period old is
\* gone from self.tasks and from the backing file once the purge sweep has run,
\* and a purge sweep leaves a DELETED task with a younger last_attempt in both
C17_PurgedFromMemoryAndFile ==
  [][\A p \in Procs, id \in TaskIds :
       /\ SweepPurges(p, id) => mem'[p][id] = NoTask /\ disk'[id] = NoTask
       /\ (/\ ScanEnd(p)
           /\ mem[p][id] # NoTask
           /\ mem[p][id].status = "DELETED"
           /\ mem[p][id].last_attempt # None
           /\ loop[p].current_time - mem[p][id].last_attempt[1].t < GraceMinutes)
          => mem'[p][id] = mem[p][id] /\ disk'[id] = disk[id]]_vars

\* C18: a task that remove_task marked DELETED less than the grace period ago is
\* still in self.tasks of the process that removed it
C18_RetainedForGracePeriod ==
  \A id \in TaskIds :
    (removedAt[id] # None /\ now - removedAt[id][1] < GraceMinutes)
    => mem[ApiProc][id] # NoTask

\* C19: while self.running is true, a scan cycle that raises is followed by the
\* backoff sleep and then by another scan cycle, and scan cycles keep occurring
C19_LoopSurvivesFailedCycle ==
  /\ [][CycleRaises(DaemonProc) => loop'[DaemonProc].pc = "backoff"]_vars
  /\ (loop[DaemonProc].pc = "backoff" /\ running[DaemonProc])
       ~> (loop[DaemonProc].pc = "scan" \/ ~running[DaemonProc])
  /\ []<>(loop[DaemonProc].pc = "scan" \/ ~running[DaemonProc])

\* the worker sleeps after a scan cycle that raised, the scheduler still enabled
C19_Witness == loop[DaemonProc].pc = "backoff" /\ running[DaemonProc]

Writers ==
  {<<p, "api">> : p \in {q \in Procs : api[q].pc = "write"}} \cup
  {<<p, "loop">> : p \in {q \in Procs : loop[q].pc \in {"pre_write", "post_write"}}}

\* C21: at most one thread is in the write section of _save_tasks and it is the
\* one that created the lock file; only that thread replaces the data file; a
\* save that finds the lock file leaves the data file, the temporary file and the
\* lock file as they are
C21_WritesUnderLock ==
  /\ [](Cardinality(Writers) <= 1 /\ \A w \in Writers : lock = w)
  /\ [][/\ (disk' # disk \/ fileExists' # fileExists \/ mtime' # mtime)
           => lock \in Writers /\ lock' = None
        /\ \A p \in Procs :
             (skipped'[p] # skipped[p] /\ skipped[p] \subseteq skipped'[p])
             => /\ lock # None
                /\ UNCHANGED <<fileExists, disk, mtime, tmp, lock>>]_vars

\* a save has been skipped while another thread is in the write section
C21_Witness == Writers # {} /\ \E p \in Procs : skipped[p] # {}

\* the process whose thread replaces the data file in this step
Saver == lock[1]

\* C23: a save that replaces the data file after the file's modification time
\* advanced past the value the saving process observed writes the merge of the
\* staged in-memory set with the file's content, not the in-memory set alone
C23_SaveMergesWhenFileAdvanced ==
  [][(FileWritten /\ lock # None /\ _should_reload_tasks(Saver))
     => Deserialize(disk') = Merge(Deserialize(tmp[1]), Deserialize(disk))]_vars

\* C24: after the daemon saves, every task of the data file that the daemon does
\* not hold in memory is still in the file, and every task it holds in memory
\* is in the file
C24_SaveLosesNoTask ==
  [][(FileWritten /\ lock # None /\ Saver = DaemonProc)
     => \A id \in TaskIds :
          /\ (fileExists /\ disk[id] # NoTask /\ mem[Saver][id] = NoTask)
             => disk'[id] # NoTask
          /\ mem[Saver][id] # NoTask => disk'[id] # NoTask]_vars

\* C26: a task whose change was left unsaved by a skipped save stays in the
\* memory of its process until a save of that process writes it
C26_UnsavedChangesKept ==
  \A p \in Procs : \A id \in skipped[p] : mem[p][id] # NoTask

\* what list_tasks returns from the map m
ListResult(m, include_deleted) ==
  {m[i] : i \in {j \in Ids(m) : include_deleted \/ m[j].status # "DELETED"}}

\* list_tasks(force_reload) of p returns in this step
ListReturns(p, force_reload) ==
  \/ CallBegin(p, "list", 0, None, force_reload) /\ api'[p].pc = "idle"
  \/ api[p].pc = "load" /\ api[p].op = "list" /\ LoadRead(p)

\* C27: list_tasks(force_reload=True) returns the tasks the backing file holds,
\* all of them with include_deleted and all but the DELETED ones without
C27_ForcedListReturnsFile ==
  [][\A p \in Procs, include_deleted \in BOOLEAN :
       (ListReturns(p, TRUE) /\ fileExists)
       => /\ ListResult(mem'[p], include_deleted)
             = ListResult(Deserialize(disk), include_deleted)
          /\ \A id \in TaskIds :
               mem'[p][id] \in ListResult(mem'[p], FALSE)
               <=> (mem'[p][id] # NoTask /\ mem'[p][id].status # "DELETED")]_vars

\* the identity and request parameters of a task, in a map or in the file
RequestFields(task) ==
  [id |-> task.id, user_id |-> task.user_id, date |-> task.date,
   interval_minutes |-> task.interval_minutes, max_attempts |-> task.max_attempts]

\* the identity and request parameters of every task that a step keeps are as
\* they were, in each map, in the objects a scan cycle holds and in the file
RequestFieldsKept ==
  \A id \in TaskIds :
    /\ \A p \in Procs :
         /\ (mem[p][id] # NoTask /\ mem'[p][id] # NoTask)
            => RequestFields(mem'[p][id]) = RequestFields(mem[p][id])
         /\ (snapObjs[p][id] # NoTask /\ snapObjs'[p][id] # NoTask)
            => RequestFields(snapObjs'[p][id]) = RequestFields(snapObjs[p][id])
    /\ (disk[id] # NoTask /\ disk'[id] # NoTask)
       => RequestFields(disk'[id]) = RequestFields(disk[id])

\* the maps a cancel_task or remove_task call on id may leave, starting from base
StatusSet(base, id) ==
  IF base[id] = NoTask THEN {base}
  ELSE {base, [base EXCEPT ![id].status = "CANCELLED"],
        [base EXCEPT ![id].status = "DELETED"]}

\* C28 as stated: no step changes the identity and request parameters of a task,
\* and a step of a cancel_task or remove_task call changes nothing in self.tasks
\* but the status of the targeted task
C28_CallsChangeStatusOnly ==
  [][/\ RequestFieldsKept
     /\ \A p \in Procs, id \in TaskIds :
          StatusCallStep(p, id) => mem'[p] \in StatusSet(mem[p], id)]_vars

\* C28 amended: no step changes the identity and request parameters of a task,
\* and a step of a cancel_task or remove_task call leaves self.tasks as it was,
\* or as the file holds it when the call's _load_tasks read the file, but for
\* the status of the targeted task
C28_FrameEffects ==
  [][/\ RequestFieldsKept
     /\ \A p \in Procs, id \in TaskIds :
          StatusCallStep(p, id)
          => \/ mem'[p] \in StatusSet(mem[p], id)
             \/ api[p].pc = "load" /\ mem'[p] \in StatusSet(Deserialize(disk), id)]_vars

\* cancel_task has cancelled a task that has been attempted, with another task
\* in the map
C28_Witness ==
  \E id \in TaskIds, other \in TaskIds :
    /\ other # id
    /\ cancelAck[id]
    /\ api[ApiProc].pc = "idle"
    /\ mem[ApiProc][id] # NoTask
    /\ mem[ApiProc][id].status = "CANCELLED"
    /\ mem[ApiProc][id].attempts >= 1
    /\ mem[ApiProc][other] # NoTask

\* C29: should_stop returns true exactly when is_expired is true or max_attempts
\* is set and attempts >= max_attempts, max_attempts = 0 included
C29_ShouldStopIff ==
  LET task == mem[ApiProc][1]
  IN ret.fn = "should_stop"
     => (ret.value <=> \/ is_expired(task)
                       \/ /\ task.max_attempts # None
                          /\ task.attempts >= task.max_attempts[1])

\* C30: is_expired returns true exactly when the date in Taiwan, the time zone
\* of the sale-window gate, is after the travel date, and false for a malformed
\* date, at every minute of the day
C30_ExpiredInOperativeZone ==
  LET task == mem[ApiProc][1]
  IN ret.fn = "is_expired"
     => (ret.value <=> (task.date # MalformedDate /\ taiwan_today > task.date))

\* the damage that makes the parse of the file fail
Unparseable == {"not_json", "not_text", "bad_record"}

\* the _load_tasks of a call of p that begins in this step gets as far as the
\* test of the file's existence and finds no file
FindsNoFile(p) ==
  /\ ~fileExists
  /\ MemEmpty(p) \/ _should_reload_tasks(p)
  /\ \E op \in {"cancel", "remove", "get", "list", "watchdog"}, id \in TaskIds \cup {0},
        uid \in CallerIds, force \in BOOLEAN :
       CallBegin(p, op, id, uid, force) /\ CallsLoad(p, op, id, force)

\* C25: a _load_tasks that finds the file unparseable moves it to its .corrupted
\* companion, leaves self.tasks empty and leaves no lock file of its own behind;
\* a _load_tasks that finds no file leaves self.tasks empty
C25_CorruptFileSetAside ==
  [][\A p \in Procs :
       /\ (LoadRead(p) /\ damage \in Unparseable)
          => /\ ~fileExists'
             /\ backup' # None
             /\ Ids(mem'[p]) = {}
             /\ api'[p].pc = "idle" => lock' # <<p, "api">>
       /\ FindsNoFile(p) => Ids(mem'[p]) = {}]_vars

\* C22: the storage file always loads, every change of its content puts the
\* whole staged file of one save in its place, and a _load_tasks that reads it,
\* with the lock or without, reads the whole task set it holds
C22_FileAlwaysComplete ==
  /\ [](damage = "none")
  /\ [][/\ (disk' # disk \/ mtime' # mtime)
           => tmp # None /\ disk' = tmp[1] /\ fileExists'
        /\ \A p \in Procs :
             LoadRead(p)
             => mem'[p] = MapAfterCall(api[p].op, api[p].id, api[p].uid, Deserialize(disk))]_vars

\* a _load_tasks that goes on without the lock while a save has staged its file
C22_Witness ==
  \E p \in Procs :
    /\ api[p].pc = "load"
    /\ ~api[p].locked
    /\ Writers # {}
    /\ tmp # None
    /\ fileExists

\* C31: from_dict(to_dict(t)) is t, field by field, for every status, with
\* optional fields absent or present and time stamps of every tzinfo or none
C31_RoundTripIsIdentity ==
  ret.fn = "from_dict" => ret.value = mem[ApiProc][1]

\* the versions the merge rule allows for a task that is in both versions and is
\* not completed in memory: the one with the later last_attempt, or, when the two
\* are equal or one is absent, the one with the higher attempts
KeptByRule(ours, theirs) ==
  IF /\ ours.last_attempt # None
     /\ theirs.last_attempt # None
     /\ ours.last_attempt[1].t # theirs.last_attempt[1].t
  THEN IF ours.last_attempt[1].t > theirs.last_attempt[1].t THEN {ours} ELSE {theirs}
  ELSE IF ours.attempts > theirs.attempts THEN {ours}
  ELSE IF theirs.attempts > ours.attempts THEN {theirs}
  ELSE {ours, theirs}

\* C32: when _save_tasks_safe merges, a task that is in memory and in the file
\* and is not SUCCESS, CANCELLED or DELETED in memory is kept in the version with
\* the later last_attempt, the attempts count deciding only when the two
\* last_attempt values are equal or one is absent
C32_MergeKeepsLaterAttempt ==
  [][\A p \in Procs, id \in TaskIds :
       (/\ SaveTasksSafe(p)
        /\ _should_reload_tasks(p)
        /\ mem[p][id] # NoTask
        /\ disk[id] # NoTask
        /\ mem[p][id].status \notin Completed)
       => mem'[p][id] \in KeptByRule(mem[p][id], from_dict(disk[id]))]_vars
\* the calls of run_booking_flow the worker threads of p are in
InFlight(p) ==
  (IF loop[p].pc = "inflight" THEN 1 ELSE 0)
  + (IF older[p].worker.pc = "inflight" THEN 1 ELSE 0)

\* C33: within one process, while the scheduler runs at most one worker thread
\* has not left its loop, and at most one call of run_booking_flow is in flight,
\* whatever calls of start_scheduler and stop_scheduler were made
C33_OneWorkerOneInvocation ==
  \A p \in Procs : (running[p] => Alive(p) <= 1) /\ InFlight(p) <= 1

\* stop_scheduler, or the SchedulerWatchdog.stop that called it, has returned and
\* the scheduler of p was not started since
StopReturned(p) == ~running[p] /\ api[p].pc # "join"

\* a worker thread of p calls run_booking_flow in this step
Invokes(p) == loop'[p] # loop[p] /\ invoked' # invoked

\* C39: once stop_scheduler or SchedulerWatchdog.stop has returned, no worker
\* thread of the process starts a further call of run_booking_flow
C39_NoInvocationAfterStop ==
  [][\A p \in Procs : StopReturned(p) => ~Invokes(p)]_vars

\* the load of p goes on without the lock file, which it found held and which is
\* still held
LocklessLoad(p) == api[p].pc = "load" /\ ~api[p].locked /\ lock # None

\* C34: a load that could not create the lock file because it is held all along
\* still has its next step, which reads the data file (self.tasks becomes what
\* the file holds) and leaves the lock file as it is
C34_LocklessLoadTerminates ==
  [][\A p \in Procs :
       LocklessLoad(p) =>
         /\ ENABLED LoadRead(p)
         /\ LoadRead(p) =>
              /\ lock' = lock
              /\ api'[p].pc = "idle"
              /\ api[p].op \in {"get", "list"} => mem'[p] = LoadedMap(p)]_vars

\* a load of the API server goes on without the lock file while the daemon holds it
C34_Witness ==
  /\ LocklessLoad(ApiProc)
  /\ lock[1] = DaemonProc
  /\ disk # Serialize(mem[ApiProc])

\* C35: a load that created the lock file has removed it when it returns (the
\* save of the same call may then create it again), and so has a save when it
\* returns, whether the write succeeded or raised
C35_LockRemovedOnReturn ==
  [][\A p \in Procs :
       /\ (LoadRead(p) /\ api[p].locked) =>
            lock' = None \/ (api'[p].pc = "write" /\ lock' = <<p, "api">>)
       /\ (api[p].pc = "write" /\ api'[p].pc = "idle") => lock' = None]_vars

\* the load of the daemon, which had created the lock file, found text json.loads
\* rejects, set the file aside and returned; the lock file is gone
C35_Witness ==
  /\ calls = 0
  /\ backup # None
  /\ api[DaemonProc].pc = "idle"
  /\ lock = None

\* what an attempt leaves on its task: final status, confirmation code, error message
OutcomeFields(task) ==
  [status |-> task.status, success_pnr |-> task.success_pnr,
   error_message |-> task.error_message]

\* C36: when run_booking_flow returns, the record self.tasks holds under the
\* task's id carries the outcome of the attempt, also when the map was reloaded
\* while the attempt was in flight, and so does the file the final save writes
C36_OutcomeSurvivesReload ==
  [][\A p \in Procs :
       /\ \A out \in CollaboratorOutcomes :
            (ExecEnd(p, out) /\ mem[p][loop[p].cur] # NoTask)
            => OutcomeFields(mem'[p][loop[p].cur])
               = OutcomeFields(Outcome(Obj(p, loop[p].cur), out))
       /\ (PostWrite(p) /\ loop[p].orphaned /\ disk'[loop[p].cur] # NoTask)
            => OutcomeFields(from_dict(disk'[loop[p].cur]))
               = OutcomeFields(snapObjs[p][loop[p].cur])]_vars

\* the statuses a scan cycle gives a task outside _execute_booking_task
ScanMade == {"EXPIRED", "FAILED", "WAITING"}

\* the file records the status self.tasks of p holds for the task
StatusOnFile(p, id) ==
  /\ fileExists
  /\ disk[id] # NoTask
  /\ mem[p][id] # NoTask
  /\ from_dict(disk[id]).status = mem[p][id].status

\* C37: a status a scan cycle of the daemon gave a task outside
\* _execute_booking_task (EXPIRED, FAILED, WAITING) is eventually the status the
\* file records for the task, unless the daemon is stopped first
C37_ScanChangesReachFile ==
  \A id \in TaskIds :
    (/\ mem[DaemonProc][id] # NoTask
     /\ mem[DaemonProc][id].status \in ScanMade
     /\ ~StatusOnFile(DaemonProc, id))
    ~> (StatusOnFile(DaemonProc, id) \/ ~watching)

\* the worker of p is between two cycles and the task, left RUNNING, is one the
\* next cycle does not pass over: its date has passed, its attempts are used up
\* or its interval has elapsed
LeftRunning(p, id) ==
  /\ mem[p][id] # NoTask
  /\ mem[p][id].status = "RUNNING"
  /\ loop[p].pc = "sleep"
  /\ \/ should_stop(mem[p][id])
     \/ should_run(mem[p][id], now)

\* C38: a task the file recorded as RUNNING when the process started leaves
\* RUNNING once its interval has elapsed, its date has passed or its attempts are
\* used up, and an attempt made for it adds one to the attempts the file recorded
C38_RunningIsResumed ==
  /\ LeftRunning(ApiProc, 1) ~> (mem[ApiProc][1].status # "RUNNING")
  /\ [][ExecBegin(ApiProc, 1) => mem'[ApiProc][1].attempts = mem[ApiProc][1].attempts + 1]_vars

\* the task the file recorded as RUNNING with one attempt was attempted once by
\* this process and is PENDING or SUCCESS with two attempts
C38_Witness ==
  /\ invoked[1] = 1
  /\ mem[ApiProc][1].attempts = 2
  /\ mem[ApiProc][1].status \in {"PENDING", "SUCCESS"}
  /\ loop[ApiProc].pc = "sleep"

\* C40: when cancel_task and remove_task calls keep being made, a change of the
\* API server that a skipped save left unwritten is eventually written, also
\* after the daemon was killed inside a save
C40_SaveEventuallyWrites ==
  ([]<><<ChangeCall(ApiProc)>>_vars)
  => ((skipped[ApiProc] # {}) ~> (skipped[ApiProc] = {}))

====
